---- MODULE Spec2Model ----
(***************************************************************************)
(* A model of coord_checker_ii.py, the Wikidata coordinate checker:        *)
(*   get_wikidata_item_details   (stage 2, the entity-detail fetcher)      *)
(*   get_iso_codes_for_countries (stage 3a, country -> ISO code)           *)
(*   check_coordinates           (stage 4, containment and scoring)        *)
(*                                                                         *)
(* Representation of Python values:                                        *)
(*   - an optional value (None or v) is a sequence of length <= 1:         *)
(*     None is <<>>, v is <<v>>;                                           *)
(*   - a dict is the sequence of its <<key, value>> pairs in insertion     *)
(*     order (Python dicts iterate in insertion order, and assigning to    *)
(*     an existing key keeps the key's position);                          *)
(*   - a URI string is the sequence of its '/'-separated segments;         *)
(*   - a status text and an ISO code are sequences of character codes;     *)
(*   - degrees are integers (the grid the geometries live on).             *)
(***************************************************************************)
EXTENDS Integers, Sequences, FiniteSets, TLC

VARIABLES
    pc,            \* position of the program
    entry,         \* the function the run was entered at (main or one stage)
    qids,          \* get_wikidata_item_details: the identifier list
    batch_size,    \* get_wikidata_item_details: its batch_size argument
    i,             \* get_wikidata_item_details: start offset of the current batch
    k,             \* number of bindings of the current response already iterated
    item_data,     \* the dict built by get_wikidata_item_details (its `results`)
    lastRaw,       \* history: per identifier, the last raw value each field carried
    raised,        \* history: the identifiers whose batch raised an exception
    country_qids,  \* get_iso_codes_for_countries: the country identifier list
    iso_batch_size, \* get_iso_codes_for_countries: its batch_size argument
    iso_i,         \* get_iso_codes_for_countries: start offset of the current batch
    iso_k,         \* number of bindings of the current response already iterated
    iso_mapping,   \* the dict built by get_iso_codes_for_countries
    firstCode,     \* history: per country, the first code a binding carried
    lastCode,      \* history: per country, the last code a binding carried
    country_geometries, \* country identifier -> geometry (a dict)
    j,             \* check_coordinates: number of records already scored
    results,       \* check_coordinates: the list of result records
    wikitext,      \* get_qids_from_wikitext: the raw text of the page
    snapshot,      \* the remote data, in the runs that fix it in advance
    log,           \* history: the calls, remote queries and delays, in order
    coord_value,   \* lines 117-134: the text of the binding's coord value
    denoted,       \* history: the two numbers the server serialized
    parsed,        \* lines 121-134: the local `coordinate` the parse leaves
    infile,        \* the dump scripts: the lines of stdin not yet read
    seen,          \* history: the entities read from the dump so far
    longest_id,    \* really_long_descriptions: id of the longest so far
    longest_desc,  \* really_long_descriptions: the longest description so far
    longest_length, \* really_long_descriptions: its length
    printed,       \* the lines printed to stdout, in order
    items_json,    \* coord_filter: `items`, the dict loaded from items.json
    item_n,        \* coord_filter: number of keys of items already iterated
    filtered_count, \* coord_filter: its counter of filtered types
    deprecated_count, \* coord_filter: its counter of deprecated claims
    unfiltered_counter, \* coord_filter: the types counted, in order
    flippable,     \* coord_filter: the dict of items a flip would repair
    other,         \* coord_filter: the list of the remaining items
    placed,        \* history: the category each iterated item ended in
    count,         \* fetch_items_by_user: its counter of items
    user_items,    \* fetch_items_by_user: number of keys of its dict `items`
    api_params,    \* fetch_items_by_user: the continuation token it sends
    user_item,     \* compare_and_find_duplicates: the user's item
    candidate_qids, \* compare_and_find_duplicates: the candidates searched
    candidate_details, \* compare_and_find_duplicates: the details fetched
    cand_n,        \* compare_and_find_duplicates: candidates already compared
    identified_merge_pairs \* compare_and_find_duplicates: the pairs found

fetchState == <<qids, batch_size, i, k, item_data, lastRaw, raised>>

isoState ==
    <<country_qids, iso_batch_size, iso_i, iso_k, iso_mapping, firstCode, lastCode>>

checkState == <<country_geometries, j, results>>

parseState == <<coord_value, denoted, parsed>>

\* the state of the other scripts of the repository
dumpState ==
    <<infile, seen, longest_id, longest_desc, longest_length, printed>>

filterState ==
    <<items_json, item_n, filtered_count, deprecated_count, unfiltered_counter,
      flippable, other, placed>>

userFetchState == <<count, user_items, api_params>>

compareState ==
    <<user_item, candidate_qids, candidate_details, cand_n,
      identified_merge_pairs>>

scriptState ==
    <<parseState, dumpState, filterState, userFetchState, compareState>>

inputState == <<wikitext, snapshot, scriptState>>

vars == <<pc, entry, fetchState, isoState, checkState, inputState, log>>

-----------------------------------------------------------------------------
(* Bounds of the model *)

\* longest identifier list handed to get_wikidata_item_details
MaxQids == 2
\* largest batch_size tried
MaxBatchSize == 2
\* longest list of bindings one response carries
MaxBindings == 2
\* longest identifier list of the runs that explore the merge of bindings
MaxMergeQids == 1
\* most records handed to check_coordinates on its own
MaxItems == 3

-----------------------------------------------------------------------------
(* Python values *)

None == <<>>

Some(v) == <<v>>

\* Python truthiness of an optional string: None and "" are falsy.
Truthy(o) == o # None /\ o[1] # ""

\* dict.get(key) on a record-shaped dict: None when the key is missing.
RecGet(rec, key) == IF key \in DOMAIN rec THEN rec[key] ELSE None

EmptyDict == <<>>

\* no remote data is fixed in advance: every response is chosen when it comes
NoSnapshot == <<>>

\* no binding is being parsed on its own
ParseIdle ==
    /\ coord_value = <<>>
    /\ denoted = <<>>
    /\ parsed = <<>>

\* no dump is being read
DumpIdle ==
    /\ infile = <<>>
    /\ seen = <<>>
    /\ longest_id = <<>>
    /\ longest_desc = <<>>
    /\ longest_length = 0
    /\ printed = <<>>

\* coord_filter has not run
FilterIdle ==
    /\ items_json = <<>>
    /\ item_n = 0
    /\ filtered_count = 0
    /\ deprecated_count = 0
    /\ unfiltered_counter = <<>>
    /\ flippable = <<>>
    /\ other = <<>>
    /\ placed = <<>>

\* fetch_items_by_user has not run
UserFetchIdle ==
    /\ count = 0
    /\ user_items = 0
    /\ api_params = <<>>

\* compare_and_find_duplicates has not run
CompareIdle ==
    /\ user_item = <<>>
    /\ candidate_qids = <<>>
    /\ candidate_details = <<>>
    /\ cand_n = 0
    /\ identified_merge_pairs = <<>>

\* none of the other scripts has run
ScriptsIdle ==
    /\ ParseIdle
    /\ DumpIdle
    /\ FilterIdle
    /\ UserFetchIdle
    /\ CompareIdle

DictKeys(d) == {d[x][1] : x \in DOMAIN d}

DictHas(d, key) == \E x \in DOMAIN d : d[x][1] = key

DictGet(d, key) == d[CHOOSE x \in DOMAIN d : d[x][1] = key][2]

\* d[key] = val: a new key is appended, an existing key keeps its position.
DictPut(d, key, val) ==
    IF DictHas(d, key)
    THEN [x \in DOMAIN d |-> IF d[x][1] = key THEN <<key, val>> ELSE d[x]]
    ELSE Append(d, <<key, val>>)

\* value.split('/')[-1] of a URI given as its segments ("" splits to [""]).
SplitLast(uri) == uri[Len(uri)]

\* binding.get(var, {}).get("value", "").split('/')[-1]
LastSegmentOf(field) == IF field = None THEN "" ELSE SplitLast(field[1])

Min(a, b) == IF a <= b THEN a ELSE b

-----------------------------------------------------------------------------
(* The remote data: identifiers, entity URIs, coordinate serializations *)

QidPool == <<"Q1", "Q2", "Q3", "Q4", "Q5">>

EntityUri(qid) == <<"http:", "", "www.wikidata.org", "entity", qid>>

\* A WKT literal "Point(<first> <second>)" in plain decimal notation, or a
\* value of another shape (a polygon, an unknown-value node, ...).
WktPoint(first, second) == [kind |-> "Point", first |-> first, second |-> second]

WktOther == [kind |-> "Other"]

\* Variant: the range check of line 129 is left out.
ParseCoordinate_NoRange(coord_str) ==
    IF coord_str = None THEN None
    ELSE IF coord_str[1].kind # "Point" THEN None
    ELSE Some([lat |-> coord_str[1].second, lon |-> coord_str[1].first])

\* Lines 121-134: re.match of Point(<lon> <lat>), float(), the range check.
\* The first number is the longitude, the second the latitude.
ParseCoordinate(coord_str) ==
    IF coord_str = None THEN None
    ELSE IF coord_str[1].kind # "Point" THEN None
    ELSE LET lon == coord_str[1].first
             lat == coord_str[1].second
         IN IF -90 <= lat /\ lat <= 90 /\ -180 <= lon /\ lon <= 180
            THEN Some([lat |-> lat, lon |-> lon])
            ELSE None

\* Variant: a value already stored is kept.
MergeField_FirstWins(new, old, key) ==
    IF Truthy(RecGet(old, key)) THEN RecGet(old, key) ELSE new

\* Lines 140-145: the new value if it is truthy, else the value already stored.
MergeField(new, old, key) == IF Truthy(new) THEN new ELSE RecGet(old, key)

\* coordinate is a dict or None: a dict with two keys is always truthy.
MergeCoordinate(new, old) == IF new # None THEN new ELSE RecGet(old, "coordinate")

\* Lines 113-145 for one well-formed binding whose item is present.
MergeBinding(d, b) ==
    LET qid == LastSegmentOf(b.item)
        country_qid == LastSegmentOf(b.country)
        old == IF DictHas(d, qid) THEN DictGet(d, qid) ELSE EmptyDict
    IN DictPut(d, qid,
         [label         |-> MergeField(b.itemLabel, old, "label"),
          coordinate    |-> MergeCoordinate(ParseCoordinate(b.coord), old),
          country_qid   |-> MergeField(Some(country_qid), old, "country_qid"),
          country_label |-> MergeField(b.countryLabel, old, "country_label")])

\* Variant: the except block starts the dict afresh.
MarkErrors_Wipe(d, batch, msg) ==
    [x \in DOMAIN batch |-> <<batch[x], [error |-> msg]>>]

RECURSIVE MarkErrors_Update(_, _, _)
\* Variant: a record the batch already built gets the error as one more key.
MarkErrors_Update(d, batch, msg) ==
    IF batch = <<>> THEN d
    ELSE LET qid == Head(batch)
             d2 == IF DictHas(d, qid)
                   THEN DictPut(d, qid, [error |-> msg] @@ DictGet(d, qid))
                   ELSE DictPut(d, qid, [error |-> msg])
         IN MarkErrors_Update(d2, Tail(batch), msg)

RECURSIVE MarkErrors(_, _, _)
\* Lines 149-151: every identifier of the batch that has no record yet gets
\* an error record.
MarkErrors(d, batch, msg) ==
    IF batch = <<>> THEN d
    ELSE LET qid == Head(batch)
             d2 == IF DictHas(d, qid) THEN d
                   ELSE DictPut(d, qid, [error |-> msg])
         IN MarkErrors(d2, Tail(batch), msg)

\* Variant: the slice is not cut at i + batch_size.
BatchQids_Uncut == SubSeq(qids, i + 1, Len(qids))

\* Line 93: qids[i:min(i + batch_size, num_qids)] (i is 0-based).
BatchQids == SubSeq(qids, i + 1, Min(i + batch_size, Len(qids)))

SeqRange(s) == {s[x] : x \in DOMAIN s}

-----------------------------------------------------------------------------
(* Texts: a Python str compared with < is a sequence of character codes *)

\* "Unknown"
StatusUnknown ==
    <<85, 110, 107, 110, 111, 119, 110>>

\* "Error in Step 2 ("
PrefixStep2 ==
    <<69, 114, 114, 111, 114, 32, 105, 110, 32, 83, 116, 101, 112, 32, 50,
      32, 40>>

\* ")"
CloseParen == <<41>>

\* "Missing Coordinate (P625)"
StatusMissingCoordinate ==
    <<77, 105, 115, 115, 105, 110, 103, 32, 67, 111, 111, 114, 100, 105,
      110, 97, 116, 101, 32, 40, 80, 54, 50, 53, 41>>

\* "Missing Country (P17)"
StatusMissingCountry ==
    <<77, 105, 115, 115, 105, 110, 103, 32, 67, 111, 117, 110, 116, 114,
      121, 32, 40, 80, 49, 55, 41>>

\* "Missing Country Geometry (No ISO code or NE match)"
StatusMissingGeometry ==
    <<77, 105, 115, 115, 105, 110, 103, 32, 67, 111, 117, 110, 116, 114,
      121, 32, 71, 101, 111, 109, 101, 116, 114, 121, 32, 40, 78, 111, 32,
      73, 83, 79, 32, 99, 111, 100, 101, 32, 111, 114, 32, 78, 69, 32, 109,
      97, 116, 99, 104, 41>>

\* "Invalid Country Geometry (NE)"
StatusInvalidGeometry ==
    <<73, 110, 118, 97, 108, 105, 100, 32, 67, 111, 117, 110, 116, 114, 121,
      32, 71, 101, 111, 109, 101, 116, 114, 121, 32, 40, 78, 69, 41>>

\* "Inside"
StatusInside ==
    <<73, 110, 115, 105, 100, 101>>

\* "Outside"
StatusOutside ==
    <<79, 117, 116, 115, 105, 100, 101>>

\* "Error during check: "
PrefixDuringCheck ==
    <<69, 114, 114, 111, 114, 32, 100, 117, 114, 105, 110, 103, 32, 99, 104,
      101, 99, 107, 58, 32>>

\* "timeout", a str(e) of a failed query
MsgTimeout ==
    <<116, 105, 109, 101, 111, 117, 116>>

\* "HTTP 500", a str(e) of a failed query
MsgHttp500 ==
    <<72, 84, 84, 80, 32, 53, 48, 48>>

\* "TopologyException", the str(e) of a failed geometry operation
MsgTopology ==
    <<84, 111, 112, 111, 108, 111, 103, 121, 69, 120, 99, 101, 112, 116,
      105, 111, 110>>

RECURSIVE LexLess(_, _)
\* Python's s < t on str: code point by code point, a proper prefix is less.
LexLess(s, t) ==
    IF t = <<>> THEN FALSE
    ELSE IF s = <<>> THEN TRUE
    ELSE IF Head(s) # Head(t) THEN Head(s) < Head(t)
    ELSE LexLess(Tail(s), Tail(t))

HasPrefix(s, p) == Len(s) >= Len(p) /\ SubSeq(s, 1, Len(p)) = p

-----------------------------------------------------------------------------
(* What a response may carry *)

\* The label service binds ?itemLabel in every binding.
Labels == {Some("a"), Some("b")}

CoordStrs == {None, Some(WktPoint(3, 1)), Some(WktPoint(7, 6)),
              Some(WktPoint(100, 95)), Some(WktOther)}

CountryLabelOf(c) == IF c = "Q30" THEN "x" ELSE "y"

\* The label service binds ?countryLabel whenever ?country is bound.
CountriesAmong(cs) ==
    {[country |-> None, countryLabel |-> None]}
    \cup {[country |-> Some(EntityUri(c)),
           countryLabel |-> Some(CountryLabelOf(c))] : c \in cs}

Countries == CountriesAmong({"Q30", "Q142"})

ErrMsgs == {MsgTimeout, MsgHttp500}

\* The bindings a response to the query for `batch` may hold: VALUES restricts
\* ?item to the batch.
BindingsFrom(batch, labels, coords, countries) ==
    {[item |-> Some(EntityUri(q)), itemLabel |-> l, coord |-> c,
      country |-> cc.country, countryLabel |-> cc.countryLabel] :
        q \in SeqRange(batch), l \in labels, c \in coords, cc \in countries}

BindingsFor(batch) == BindingsFrom(batch, Labels, CoordStrs, Countries)

-----------------------------------------------------------------------------
(* The history of calls, remote queries and delays *)

\* main calls a stage, or prints the report
CallEvent(stage) == [op |-> "call", stage |-> stage, batch |-> <<>>]

\* sparql.query() is issued for a batch (lines 109 and 187)
QueryEvent(stage, batch) == [op |-> "query", stage |-> stage, batch |-> batch]

\* an exception was caught in `stage`
ErrorEvent(stage) == [op |-> "error", stage |-> stage, batch |-> <<>>]

\* time.sleep(SPARQL_DELAY)
SleepEvent(stage) == [op |-> "sleep", stage |-> stage, batch |-> <<>>]

\* Variant: the delay is skipped when the batch raised.
DelayAfter_SuccessOnly(stage, failed) ==
    IF failed THEN <<>> ELSE <<SleepEvent(stage)>>

\* Lines 153 and 199: the sleep stands behind the try statement, inside the
\* loop, so it follows the batch whether the batch raised or not.
DelayAfter(stage, failed) == <<SleepEvent(stage)>>

-----------------------------------------------------------------------------
(* get_wikidata_item_details *)

\* Line 156: the dict goes back to the caller.
AfterFetch == IF entry = "main" THEN "main_fetched" ELSE "done"

\* Line 153 and the loop header: sleep, then the next batch or the return.
NextBatch ==
    /\ i' = i + batch_size
    /\ k' = 0
    /\ pc' = IF i + batch_size < Len(qids) THEN "fetch_query" ELSE "fetch_return"

\* Lines 105-109 raise: lines 147-151.
FetchQueryRaises ==
    /\ pc = "fetch_query"
    /\ \E msg \in ErrMsgs :
         item_data' = MarkErrors(item_data, BatchQids, msg)
    /\ raised' = raised \cup SeqRange(BatchQids)
    /\ NextBatch
    /\ log' = log \o <<QueryEvent("get_wikidata_item_details", BatchQids), ErrorEvent("get_wikidata_item_details")>>
                   \o DelayAfter("get_wikidata_item_details", TRUE)
    /\ UNCHANGED <<entry, inputState, qids, batch_size, lastRaw, isoState, checkState>>

\* Lines 105-110 return the bindings.
FetchQueryReturns ==
    /\ pc = "fetch_query"
    /\ pc' = "fetch_bindings"
    /\ log' = log \o <<QueryEvent("get_wikidata_item_details", BatchQids)>>
    /\ UNCHANGED <<entry, inputState, fetchState, isoState, checkState>>

\* The history of what the bindings of an identifier carried, field by field.
NoteRaw(h, b) ==
    LET qid == LastSegmentOf(b.item)
        old == IF DictHas(h, qid) THEN DictGet(h, qid)
               ELSE [label |-> None, coord |-> None,
                     country |-> None, countryLabel |-> None]
    IN DictPut(h, qid,
         [label        |-> IF b.itemLabel # None THEN b.itemLabel ELSE old.label,
          coord        |-> IF b.coord # None THEN b.coord ELSE old.coord,
          country      |-> IF b.country # None THEN b.country ELSE old.country,
          countryLabel |-> IF b.countryLabel # None THEN b.countryLabel
                           ELSE old.countryLabel])

\* Lines 112-145: one iteration of the loop over the bindings.
FetchBinding(b) ==
    /\ pc = "fetch_bindings"
    /\ k < MaxBindings
    /\ k' = k + 1
    /\ item_data' = MergeBinding(item_data, b)
    /\ lastRaw' = NoteRaw(lastRaw, b)
    /\ UNCHANGED <<pc, entry, inputState, log, qids, batch_size, i, raised, isoState, checkState>>

\* Line 114: a binding without ?item is skipped.
FetchBindingSkipped ==
    /\ pc = "fetch_bindings"
    /\ k < MaxBindings
    /\ k' = k + 1
    /\ UNCHANGED <<pc, entry, inputState, log, qids, batch_size, i, item_data, lastRaw, raised,
                   isoState, checkState>>

\* Line 113 raises on a binding that is not a mapping of variables to
\* {"value": ...} objects: lines 147-151.
FetchBindingRaises ==
    /\ pc = "fetch_bindings"
    /\ k < MaxBindings
    /\ \E msg \in ErrMsgs :
         item_data' = MarkErrors(item_data, BatchQids, msg)
    /\ raised' = raised \cup SeqRange(BatchQids)
    /\ NextBatch
    /\ log' = log \o <<ErrorEvent("get_wikidata_item_details")>> \o DelayAfter("get_wikidata_item_details", TRUE)
    /\ UNCHANGED <<entry, inputState, qids, batch_size, lastRaw, isoState, checkState>>

\* The bindings are exhausted: line 153.
FetchBatchDone ==
    /\ pc = "fetch_bindings"
    /\ NextBatch
    /\ log' = log \o DelayAfter("get_wikidata_item_details", FALSE)
    /\ UNCHANGED <<entry, inputState, qids, batch_size, item_data, lastRaw, raised,
                   isoState, checkState>>

\* Line 156.
FetchReturn ==
    /\ pc = "fetch_return"
    /\ pc' = AfterFetch
    /\ UNCHANGED <<entry, inputState, log, fetchState, isoState, checkState>>

InitFetch ==
    /\ entry = "get_wikidata_item_details"
    /\ \E n \in 0..MaxMergeQids : qids = SubSeq(QidPool, 1, n)
    /\ batch_size \in 1..Min(MaxBatchSize, IF qids = <<>> THEN 1 ELSE Len(qids))
    /\ i = 0
    /\ k = 0
    /\ item_data = EmptyDict
    /\ lastRaw = EmptyDict
    /\ raised = {}
    /\ pc = IF Len(qids) > 0 THEN "fetch_query" ELSE "fetch_return"
    /\ country_qids = <<>>
    /\ iso_batch_size = 1
    /\ iso_i = 0
    /\ iso_k = 0
    /\ iso_mapping = EmptyDict
    /\ firstCode = EmptyDict
    /\ lastCode = EmptyDict
    /\ country_geometries = EmptyDict
    /\ j = 0
    /\ results = <<>>
    /\ wikitext = <<>>
    /\ snapshot = NoSnapshot
    /\ log = <<>>
    /\ ScriptsIdle

NextFetch ==
    \/ FetchQueryRaises
    \/ FetchQueryReturns
    \/ \E b \in BindingsFor(BatchQids) : FetchBinding(b)
    \/ FetchBindingSkipped
    \/ FetchBindingRaises
    \/ FetchBatchDone
    \/ FetchReturn

SpecFetch == InitFetch /\ [][NextFetch]_vars

-----------------------------------------------------------------------------
(* Geometries: what check_coordinates asks of shapely *)

\* A country geometry is an axis-parallel box of the lon/lat plane,
\* x1 <= x <= x2 and y1 <= y <= y2, with the answers of is_valid and is_empty
\* and the outcome of buffer(0): "valid" (the box bx1..by2), "empty",
\* "invalid" or "raise".
Geometry(x1, x2, y1, y2, valid, buf, bx1, bx2, by1, by2) ==
    [x1 |-> x1, x2 |-> x2, y1 |-> y1, y2 |-> y2, valid |-> valid,
     empty |-> FALSE, buf |-> buf,
     bx1 |-> bx1, bx2 |-> bx2, by1 |-> by1, by2 |-> by2]

ValidBox(x1, x2, y1, y2) ==
    Geometry(x1, x2, y1, y2, TRUE, "valid", x1, x2, y1, y2)

\* shapely.geometry.Point(x, y)
Point(x, y) == [x |-> x, y |-> y]

\* geom.buffer(0), when it returns
Buffer0(g) ==
    [g EXCEPT !.x1 = g.bx1, !.x2 = g.bx2, !.y1 = g.by1, !.y2 = g.by2,
              !.valid = (g.buf = "valid"), !.empty = (g.buf = "empty")]

\* Variant: the point's y is tested against the x-interval and its x
\* against the y-interval.
Contains_Swapped(g, p) == g.x1 < p.y /\ p.y < g.x2 /\ g.y1 < p.x /\ p.x < g.y2

\* Variant: the boundary counts as contained (covers instead of contains).
Contains_Closed(g, p) == g.x1 <= p.x /\ p.x <= g.x2 /\ g.y1 <= p.y /\ p.y <= g.y2

\* geom.contains(point): the point lies in the interior, not on the boundary
Contains(g, p) == g.x1 < p.x /\ p.x < g.x2 /\ g.y1 < p.y /\ p.y < g.y2

Max3(a, b, c) ==
    IF a >= b /\ a >= c THEN a ELSE IF b >= c THEN b ELSE c

\* the root of a perfect square
Sqrt(n) == CHOOSE r \in 0..n : r * r = n

\* geom.distance(point): the planar distance, 0 in the box and on its boundary
Distance(g, p) ==
    LET dx == Max3(g.x1 - p.x, 0, p.x - g.x2)
        dy == Max3(g.y1 - p.y, 0, p.y - g.y2)
    IN Sqrt(dx * dx + dy * dy)

-----------------------------------------------------------------------------
(* check_coordinates *)

\* Variant: an Inside record keeps the score it was initialised with.
ContainmentResult_NoInsideScore(geom_to_check, item_point) ==
    IF Contains(geom_to_check, item_point)
    THEN [status |-> StatusInside, score |-> None]
    ELSE [status |-> StatusOutside,
          score |-> Some(Distance(geom_to_check, item_point))]

\* Lines 335-344.
ContainmentResult(geom_to_check, item_point) ==
    IF Contains(geom_to_check, item_point)
    THEN [status |-> StatusInside, score |-> Some(0)]
    ELSE [status |-> StatusOutside,
          score |-> Some(Distance(geom_to_check, item_point))]

\* Variant: the point is built latitude first.
CheckGeometry_LatFirst(data, country_geom) ==
    LET item_point == Point(data.coordinate[1].lat, data.coordinate[1].lon)
    IN IF country_geom.valid
       THEN ContainmentResult(country_geom, item_point)
       ELSE IF country_geom.buf = "raise"
       THEN [status |-> PrefixDuringCheck \o MsgTopology, score |-> None]
       ELSE LET buffered_geom == Buffer0(country_geom)
            IN IF buffered_geom.valid /\ ~buffered_geom.empty
               THEN ContainmentResult(buffered_geom, item_point)
               ELSE [status |-> StatusInvalidGeometry, score |-> None]

\* Variant: after a successful buffer(0) the original geometry is checked.
CheckGeometry_UsesOriginal(data, country_geom) ==
    LET item_point == Point(data.coordinate[1].lon, data.coordinate[1].lat)
    IN IF country_geom.valid
       THEN ContainmentResult(country_geom, item_point)
       ELSE IF country_geom.buf = "raise"
       THEN [status |-> PrefixDuringCheck \o MsgTopology, score |-> None]
       ELSE LET buffered_geom == Buffer0(country_geom)
            IN IF buffered_geom.valid /\ ~buffered_geom.empty
               THEN ContainmentResult(country_geom, item_point)
               ELSE [status |-> StatusInvalidGeometry, score |-> None]

\* Variant: the except branch does not set the status.
CheckGeometry_SilentExcept(data, country_geom) ==
    LET item_point == Point(data.coordinate[1].lon, data.coordinate[1].lat)
    IN IF country_geom.valid
       THEN ContainmentResult(country_geom, item_point)
       ELSE IF country_geom.buf = "raise"
       THEN [status |-> StatusUnknown, score |-> None]
       ELSE LET buffered_geom == Buffer0(country_geom)
            IN IF buffered_geom.valid /\ ~buffered_geom.empty
               THEN ContainmentResult(buffered_geom, item_point)
               ELSE [status |-> StatusInvalidGeometry, score |-> None]

\* Lines 318-349: the geometry was found.
CheckGeometry(data, country_geom) ==
    LET item_point == Point(data.coordinate[1].lon, data.coordinate[1].lat)
    IN IF country_geom.valid
       THEN ContainmentResult(country_geom, item_point)
       ELSE IF country_geom.buf = "raise"
       THEN [status |-> PrefixDuringCheck \o MsgTopology, score |-> None]
       ELSE LET buffered_geom == Buffer0(country_geom)
            IN IF buffered_geom.valid /\ ~buffered_geom.empty
               THEN ContainmentResult(buffered_geom, item_point)
               ELSE [status |-> StatusInvalidGeometry, score |-> None]

\* country_geometries.get(country_qid)
GeometryOf(geoms, country_qid) ==
    IF DictHas(geoms, country_qid) THEN Some(DictGet(geoms, country_qid))
    ELSE None

\* Variant: the country is looked at before the coordinate.
ScoreRecord_CountryFirst(data, geoms) ==
    IF "error" \in DOMAIN data
    THEN [status |-> PrefixStep2 \o data.error \o CloseParen, score |-> None]
    ELSE IF ~Truthy(RecGet(data, "country_qid"))
    THEN [status |-> StatusMissingCountry, score |-> None]
    ELSE IF RecGet(data, "coordinate") = None
    THEN [status |-> StatusMissingCoordinate, score |-> None]
    ELSE LET country_geom == GeometryOf(geoms, data.country_qid[1])
         IN IF country_geom = None \/ country_geom[1].empty
            THEN [status |-> StatusMissingGeometry, score |-> None]
            ELSE CheckGeometry(data, country_geom[1])

\* Lines 297-349: the status and the score of one record.
ScoreRecord(data, geoms) ==
    IF "error" \in DOMAIN data
    THEN [status |-> PrefixStep2 \o data.error \o CloseParen, score |-> None]
    ELSE IF RecGet(data, "coordinate") = None
    THEN [status |-> StatusMissingCoordinate, score |-> None]
    ELSE IF ~Truthy(RecGet(data, "country_qid"))
    THEN [status |-> StatusMissingCountry, score |-> None]
    ELSE LET country_geom == GeometryOf(geoms, data.country_qid[1])
         IN IF country_geom = None \/ country_geom[1].empty
            THEN [status |-> StatusMissingGeometry, score |-> None]
            ELSE CheckGeometry(data, country_geom[1])

\* data.get(key, default)
GetOr(data, key, default) == IF key \in DOMAIN data THEN data[key] ELSE default

\* Lines 352-360.
ResultOf(qid, data, geoms) ==
    LET r == ScoreRecord(data, geoms)
    IN [qid           |-> qid,
        label         |-> GetOr(data, "label", Some("[No Label]")),
        coordinate    |-> RecGet(data, "coordinate"),
        country_qid   |-> RecGet(data, "country_qid"),
        country_label |-> GetOr(data, "country_label", Some("[No Country Label]")),
        status        |-> r.status,
        score         |-> r.score]

\* Variant: the score is not negated.
sort_key_Ascending(item) ==
    IF item.status = StatusOutside
    THEN [group |-> 0,
          num |-> IF item.score # None THEN item.score[1] ELSE 0,
          text |-> <<>>]
    ELSE IF item.status = StatusInside
    THEN [group |-> 1, num |-> 0, text |-> <<>>]
    ELSE [group |-> 2, num |-> 0, text |-> item.status]

\* Lines 372-378: the key is a pair; its second component is a number for
\* Outside and Inside and the status text for every other status.
sort_key(item) ==
    IF item.status = StatusOutside
    THEN [group |-> 0,
          num |-> IF item.score # None THEN -item.score[1] ELSE 0,
          text |-> <<>>]
    ELSE IF item.status = StatusInside
    THEN [group |-> 1, num |-> 0, text |-> <<>>]
    ELSE [group |-> 2, num |-> 0, text |-> item.status]

\* Python's < on the key tuples.
KeyLess(a, b) ==
    \/ a.group < b.group
    \/ /\ a.group = b.group
       /\ IF a.group = 2 THEN LexLess(a.text, b.text) ELSE a.num < b.num

RECURSIVE InsertByKey(_, _)
\* x goes behind every element whose key is not greater than its own.
InsertByKey(sorted, x) ==
    IF sorted = <<>> THEN <<x>>
    ELSE IF KeyLess(sort_key(x), sort_key(Head(sorted))) THEN <<x>> \o sorted
    ELSE <<Head(sorted)>> \o InsertByKey(Tail(sorted), x)

RECURSIVE SortInto(_, _)
SortInto(sorted, rest) ==
    IF rest = <<>> THEN sorted
    ELSE SortInto(InsertByKey(sorted, Head(rest)), Tail(rest))

\* Line 379: list.sort(key=sort_key) is stable.
SortResults(list) == SortInto(<<>>, list)

\* Variant: main goes back to the test of line 404.
AfterCheck_Again == IF entry = "main" THEN "main_fetched" ELSE "done"

\* Line 380: the list goes back to the caller.
AfterCheck == IF entry = "main" THEN "main_report" ELSE "done"

\* Lines 296-360: one iteration of the loop over item_data.items().
CheckRecord ==
    /\ pc = "check_loop"
    /\ j < Len(item_data)
    /\ results' = Append(results,
                         ResultOf(item_data[j + 1][1], item_data[j + 1][2],
                                  country_geometries))
    /\ j' = j + 1
    /\ UNCHANGED <<pc, entry, inputState, log, fetchState, isoState, country_geometries>>

\* Lines 362-380: the loop is over; sort and return.
CheckReturn ==
    /\ pc = "check_loop"
    /\ j = Len(item_data)
    /\ results' = SortResults(results)
    /\ pc' = AfterCheck
    /\ UNCHANGED <<entry, inputState, log, fetchState, isoState, country_geometries, j>>

-----------------------------------------------------------------------------
(* check_coordinates on its own: the records get_wikidata_item_details can *)
(* build and the geometries the resolver can hand over                     *)

Coordinate(lon, lat) == Some([lat |-> lat, lon |-> lon])

Details(coordinate, country_qid) ==
    [label |-> Some("a"), coordinate |-> coordinate,
     country_qid |-> country_qid,
     country_label |-> IF country_qid = None THEN None ELSE Some("x")]

\* Q30: a valid box, 0 <= lon <= 4 and 0 <= lat <= 2.
\* Q142: invalid, repaired by buffer(0) to the box 0 <= lon <= 2, 0 <= lat <= 2.
\* Q183: invalid, buffer(0) gives an empty geometry.
\* Q17: invalid, buffer(0) gives an invalid geometry.
\* Q213: invalid, buffer(0) raises.
\* Q99 has no geometry.
WorldGeometries ==
    << <<"Q30", ValidBox(0, 4, 0, 2)>>,
       <<"Q142", Geometry(0, 4, 0, 2, FALSE, "valid", 0, 2, 0, 2)>>,
       <<"Q183", Geometry(0, 4, 0, 2, FALSE, "empty", 0, 0, 0, 0)>>,
       <<"Q17", Geometry(0, 4, 0, 2, FALSE, "invalid", 0, 4, 0, 2)>>,
       <<"Q213", Geometry(0, 4, 0, 2, FALSE, "raise", 0, 0, 0, 0)>> >>

GeometryMaps == {WorldGeometries, EmptyDict}

\* (lon 3, lat 1) is inside Q30; (lon 1, lat 3) is 1 away from it, (lon 7,
\* lat 6) is 5 away, and (lon 4, lat 1) lies on its boundary.
RecordPool ==
    {[error |-> m] : m \in ErrMsgs}
    \cup {Details(None, q) : q \in {None, Some("Q30")}}
    \cup {Details(Coordinate(3, 1), q) : q \in {None, Some("Q30"), Some("Q99")}}
    \cup {Details(c, Some("Q30")) :
            c \in {Coordinate(1, 3), Coordinate(7, 6), Coordinate(4, 1)}}
    \cup {Details(Coordinate(3, 1), Some(q)) : q \in {"Q142", "Q183", "Q17", "Q213"}}

\* The dict of the records f[1]..f[n], keyed Q1..Qn in insertion order.
ItemDict(f) == [x \in DOMAIN f |-> <<QidPool[x], f[x]>>]

InitCheck ==
    /\ entry = "check_coordinates"
    /\ pc = "check_loop"
    /\ \E n \in 0..MaxItems :
         \E f \in [1..n -> RecordPool] : item_data = ItemDict(f)
    /\ country_geometries \in GeometryMaps
    /\ j = 0
    /\ results = <<>>
    /\ wikitext = <<>>
    /\ snapshot = NoSnapshot
    /\ log = <<>>
    /\ ScriptsIdle
    /\ qids = <<>>
    /\ batch_size = 1
    /\ i = 0
    /\ k = 0
    /\ lastRaw = EmptyDict
    /\ raised = {}
    /\ country_qids = <<>>
    /\ iso_batch_size = 1
    /\ iso_i = 0
    /\ iso_k = 0
    /\ iso_mapping = EmptyDict
    /\ firstCode = EmptyDict
    /\ lastCode = EmptyDict

NextCheck ==
    \/ CheckRecord
    \/ CheckReturn

SpecCheck == InitCheck /\ [][NextCheck]_vars

-----------------------------------------------------------------------------
(* The claims about check_coordinates (SpecCheck) *)

IsFetchError(status) == HasPrefix(status, PrefixStep2)

IsCheckError(status) ==
    status = StatusInvalidGeometry \/ HasPrefix(status, PrefixDuringCheck)

\* the seven terminal categories
IsTerminal(status) ==
    \/ IsFetchError(status)
    \/ status \in {StatusMissingCoordinate, StatusMissingCountry,
                   StatusMissingGeometry, StatusInside, StatusOutside}
    \/ IsCheckError(status)

\* the input record a result was made from
InputOf(r) == DictGet(item_data, r.qid)

\* the position of an identifier in the input
InputPos(qid) == CHOOSE x \in DOMAIN item_data : item_data[x][1] = qid

Returned == pc = "done" /\ entry = "check_coordinates"

\* the record has no error, a coordinate, a country and a geometry
HasGeometry(data) ==
    /\ "error" \notin DOMAIN data
    /\ data.coordinate # None
    /\ data.country_qid # None
    /\ DictHas(country_geometries, data.country_qid[1])

\* the geometry containment is evaluated on, when there is one
IsUsable(g) == g.valid \/ g.buf = "valid"

UsableGeometry(g) ==
    IF g.valid THEN [x1 |-> g.x1, x2 |-> g.x2, y1 |-> g.y1, y2 |-> g.y2]
    ELSE [x1 |-> g.bx1, x2 |-> g.bx2, y1 |-> g.by1, y2 |-> g.by2]

\* the point (x = lon, y = lat) lies strictly inside the box
StrictlyInside(box, c) ==
    box.x1 < c.lon /\ c.lon < box.x2 /\ box.y1 < c.lat /\ c.lat < box.y2

\* the point lies in the box or on its boundary
InClosedBox(box, c) ==
    box.x1 <= c.lon /\ c.lon <= box.x2 /\ box.y1 <= c.lat /\ c.lat <= box.y2

\* how far v lies outside the interval lo..hi
Excess(v, lo, hi) == IF v < lo THEN lo - v ELSE IF v > hi THEN v - hi ELSE 0

\* d is the planar distance from the point to the box
IsDistance(d, box, c) ==
    /\ d >= 0
    /\ d * d = Excess(c.lon, box.x1, box.x2) * Excess(c.lon, box.x1, box.x2)
               + Excess(c.lat, box.y1, box.y2) * Excess(c.lat, box.y1, box.y2)

\* C1: every result's status follows the first applicable rule, in the order
\* fetch error, missing coordinate, missing country, missing geometry, and
\* only otherwise containment is evaluated; a record with no coordinate (and
\* no fetch error) is missing-coordinate with score None whatever its country
\* and the resolved geometries.
C1_FirstApplicableRule ==
    \A x \in DOMAIN results :
      LET r == results[x]
          data == InputOf(r)
      IN IF "error" \in DOMAIN data
         THEN IsFetchError(r.status) /\ r.score = None
         ELSE IF data.coordinate = None
         THEN r.status = StatusMissingCoordinate /\ r.score = None
         ELSE IF data.country_qid = None
         THEN r.status = StatusMissingCountry /\ r.score = None
         ELSE IF ~DictHas(country_geometries, data.country_qid[1])
         THEN r.status = StatusMissingGeometry /\ r.score = None
         ELSE r.status \in {StatusInside, StatusOutside} \/ IsCheckError(r.status)

\* C1 witness: a returned record without coordinate whose country has a
\* resolved geometry is missing-coordinate, beside one of each later rule.
C1_Witness ==
    /\ Returned
    /\ \E x \in DOMAIN results :
         /\ results[x].coordinate = None
         /\ results[x].country_qid = Some("Q30")
         /\ DictHas(country_geometries, "Q30")
         /\ results[x].status = StatusMissingCoordinate
    /\ \E x \in DOMAIN results : results[x].status = StatusMissingCountry
    /\ \E x \in DOMAIN results : results[x].status = StatusMissingGeometry

\* C2: one result per input record scored so far (so exactly one per record
\* at the return, none assigned twice), and every status is one of the seven
\* terminal categories, never the placeholder "Unknown".
C2_OneTerminalResultPerRecord ==
    /\ Len(results) = j
    /\ \A x \in DOMAIN item_data :
         Cardinality({y \in DOMAIN results : results[y].qid = item_data[x][1]})
           = IF x <= j THEN 1 ELSE 0
    /\ \A y \in DOMAIN results :
         IsTerminal(results[y].status) /\ results[y].status # StatusUnknown
    /\ Returned => j = Len(item_data)

\* C2 witness: three records returned, one of them through the except branch.
C2_Witness ==
    /\ Returned
    /\ Len(results) = 3
    /\ \E y \in DOMAIN results : HasPrefix(results[y].status, PrefixDuringCheck)
    /\ \E y \in DOMAIN results : results[y].status = StatusInvalidGeometry

\* C4: with no fetch error, a coordinate, a country and a usable geometry,
\* the record is Inside with score 0 when the geometry contains the point,
\* and otherwise Outside with the planar distance as its score.
C4_InsideOrDistance ==
    \A x \in DOMAIN results :
      LET r == results[x]
          data == InputOf(r)
      IN (HasGeometry(data) /\ IsUsable(DictGet(country_geometries, data.country_qid[1])))
         => LET box == UsableGeometry(DictGet(country_geometries, data.country_qid[1]))
                c == data.coordinate[1]
            IN IF StrictlyInside(box, c)
               THEN r.status = StatusInside /\ r.score = Some(0)
               ELSE /\ r.status = StatusOutside
                    /\ r.score # None
                    /\ IsDistance(r.score[1], box, c)

\* C4 witness: (lon 3, lat 1) is Inside Q30 with score 0, (lon 7, lat 6) is
\* Outside with score 5, and a repaired geometry was used.
C4_Witness ==
    /\ Returned
    /\ \E x \in DOMAIN results :
         /\ results[x].coordinate = Coordinate(3, 1)
         /\ results[x].country_qid = Some("Q30")
         /\ results[x].status = StatusInside
    /\ \E x \in DOMAIN results :
         /\ results[x].coordinate = Coordinate(7, 6)
         /\ results[x].status = StatusOutside
         /\ results[x].score = Some(5)
    /\ \E x \in DOMAIN results :
         /\ results[x].country_qid = Some("Q142")
         /\ results[x].status = StatusOutside

\* C5 as claimed: the score is present only when the status is Outside (and
\* is then non-negative).
C5_ScoreOnlyWhenOutside ==
    \A x \in DOMAIN results :
      results[x].score # None
        => results[x].status = StatusOutside /\ results[x].score[1] >= 0

\* C5 amended: the score is present exactly when the status is Inside or
\* Outside; it is 0 for Inside and non-negative for Outside.
C5_ScoreWhenCompared ==
    \A x \in DOMAIN results :
      LET r == results[x]
      IN /\ r.score # None <=> r.status \in {StatusInside, StatusOutside}
         /\ r.status = StatusInside => r.score = Some(0)
         /\ r.status = StatusOutside => r.score[1] >= 0

\* C5 witness: an Inside record with score 0 beside an Outside record with a
\* score and a record without one.
C5_Witness ==
    /\ Returned
    /\ \E x \in DOMAIN results :
         results[x].status = StatusInside /\ results[x].score = Some(0)
    /\ \E x \in DOMAIN results :
         results[x].status = StatusOutside /\ results[x].score = Some(1)
    /\ \E x \in DOMAIN results :
         results[x].status = StatusMissingCountry /\ results[x].score = None

\* C6 as claimed: a record whose point the (usable) polygon of its country
\* does not contain is Outside with a strictly positive score, the distance.
C6_OutsideStrictlyPositive ==
    \A x \in DOMAIN results :
      LET r == results[x]
          data == InputOf(r)
      IN (HasGeometry(data) /\ IsUsable(DictGet(country_geometries, data.country_qid[1])))
         => LET box == UsableGeometry(DictGet(country_geometries, data.country_qid[1]))
                c == data.coordinate[1]
            IN ~StrictlyInside(box, c)
               => /\ r.status = StatusOutside
                  /\ r.score # None
                  /\ r.score[1] > 0
                  /\ IsDistance(r.score[1], box, c)

\* C6 amended: such a record is Outside with the distance as its score; the
\* score is strictly positive unless the point lies on the polygon's
\* boundary, where it is 0.
C6_OutsideDistance ==
    \A x \in DOMAIN results :
      LET r == results[x]
          data == InputOf(r)
      IN (HasGeometry(data) /\ IsUsable(DictGet(country_geometries, data.country_qid[1])))
         => LET box == UsableGeometry(DictGet(country_geometries, data.country_qid[1]))
                c == data.coordinate[1]
            IN ~StrictlyInside(box, c)
               => /\ r.status = StatusOutside
                  /\ r.score # None
                  /\ IsDistance(r.score[1], box, c)
                  /\ r.score[1] > 0 <=> ~InClosedBox(box, c)

\* C6 witness: a point on the boundary is Outside with score 0, beside a
\* point at distance 5.
C6_Witness ==
    /\ Returned
    /\ \E x \in DOMAIN results :
         /\ results[x].coordinate = Coordinate(4, 1)
         /\ results[x].status = StatusOutside
         /\ results[x].score = Some(0)
    /\ \E x \in DOMAIN results :
         /\ results[x].coordinate = Coordinate(7, 6)
         /\ results[x].status = StatusOutside
         /\ results[x].score = Some(5)

\* the bucket of the report a status belongs to
Bucket(status) ==
    IF status = StatusOutside THEN 0 ELSE IF status = StatusInside THEN 1 ELSE 2

\* the order both statements of C7 agree on: Outside first by descending
\* score, then Inside, then the rest; equal-score Outside records and the
\* Inside records keep their input order
OrderedUpToTheRest ==
    \A x, y \in DOMAIN results :
      x < y =>
        LET a == results[x]
            b == results[y]
        IN /\ Bucket(a.status) <= Bucket(b.status)
           /\ (a.status = StatusOutside /\ b.status = StatusOutside)
                => /\ a.score[1] >= b.score[1]
                   /\ a.score = b.score => InputPos(a.qid) < InputPos(b.qid)
           /\ (a.status = StatusInside /\ b.status = StatusInside)
                => InputPos(a.qid) < InputPos(b.qid)

\* C7 as claimed: the returned list is ordered as above, and the records of
\* every other status keep their input order among themselves.
C7_RestKeepsInputOrder ==
    Returned =>
      /\ OrderedUpToTheRest
      /\ \A x, y \in DOMAIN results :
           (x < y /\ Bucket(results[x].status) = 2 /\ Bucket(results[y].status) = 2)
             => InputPos(results[x].qid) < InputPos(results[y].qid)

\* C7 amended: the returned list is ordered as above, and the records of
\* every other status come in ascending order of their status text; those
\* with the same status text keep their input order.
C7_RestByStatusText ==
    Returned =>
      /\ OrderedUpToTheRest
      /\ \A x, y \in DOMAIN results :
           (x < y /\ Bucket(results[x].status) = 2 /\ Bucket(results[y].status) = 2)
             => /\ ~LexLess(results[y].status, results[x].status)
                /\ results[x].status = results[y].status
                     => InputPos(results[x].qid) < InputPos(results[y].qid)

\* C7 witness: Inside, Outside(1), Outside(5) given in this order come out
\* as Outside(5), Outside(1), Inside.
C7_Witness ==
    /\ Returned
    /\ Len(results) = 3
    /\ results[1].status = StatusOutside /\ results[1].score = Some(5)
    /\ results[2].status = StatusOutside /\ results[2].score = Some(1)
    /\ results[3].status = StatusInside
    /\ InputPos(results[3].qid) = 1
    /\ InputPos(results[2].qid) = 2

-----------------------------------------------------------------------------
(* get_iso_codes_for_countries *)

\* Python truthiness of an optional text: None and the empty text are falsy.
TruthyText(o) == o # None /\ Len(o[1]) > 0

\* str.isspace of one character
IsSpace(c) == c \in 9..13 \/ c \in 28..32

RECURSIVE LStrip(_)
LStrip(t) == IF t # <<>> /\ IsSpace(Head(t)) THEN LStrip(Tail(t)) ELSE t

RECURSIVE RStrip(_)
RStrip(t) ==
    IF t # <<>> /\ IsSpace(t[Len(t)]) THEN RStrip(SubSeq(t, 1, Len(t) - 1)) ELSE t

\* str.strip()
Strip(t) == RStrip(LStrip(t))

\* str.upper() on ASCII text
Upper(t) == [x \in DOMAIN t |-> IF t[x] \in 97..122 THEN t[x] - 32 ELSE t[x]]

\* Variant: the latest code replaces the one stored.
MergeIsoBinding_LastWins(m, b) ==
    LET qid == LastSegmentOf(b.country)
    IN IF qid # "" /\ TruthyText(b.isoCode)
       THEN DictPut(m, qid, Upper(Strip(b.isoCode[1])))
       ELSE m

\* Lines 191-196 for one well-formed binding.
MergeIsoBinding(m, b) ==
    LET qid == LastSegmentOf(b.country)
    IN IF qid # "" /\ TruthyText(b.isoCode) /\ ~DictHas(m, qid)
       THEN DictPut(m, qid, Upper(Strip(b.isoCode[1])))
       ELSE m

\* Line 171: country_qids[i:min(i + batch_size, num_qids)].
IsoBatchQids ==
    SubSeq(country_qids, iso_i + 1, Min(iso_i + iso_batch_size, Len(country_qids)))

\* "USA"
CodeUSA == <<85, 83, 65>>

\* "usa"
CodeUsaLower == <<117, 115, 97>>

\* " fra "
CodeFraPadded == <<32, 102, 114, 97, 32>>

\* "FRA"
CodeFRA == <<70, 82, 65>>

\* "XKX", a code the reference dataset does not hold
CodeXKX == <<88, 75, 88>>

\* The bindings a response to the code query for `batch` may hold, with
\* the codes drawn from `codes`.
IsoBindingsFor(batch, codes) ==
    {[country |-> Some(EntityUri(c)), isoCode |-> code] :
        c \in SeqRange(batch), code \in codes}

\* Line 202: the mapping goes back to the caller.
AfterIso == IF entry = "main" THEN "geo_load" ELSE "done"

\* Line 199 and the loop header: sleep, then the next batch or the return.
NextIsoBatch ==
    /\ iso_i' = iso_i + iso_batch_size
    /\ iso_k' = 0
    /\ pc' = IF iso_i + iso_batch_size < Len(country_qids)
             THEN "iso_query" ELSE "iso_return"

\* Lines 183-187 raise: line 198.
IsoQueryRaises ==
    /\ pc = "iso_query"
    /\ NextIsoBatch
    /\ log' = log \o <<QueryEvent("get_iso_codes_for_countries", IsoBatchQids), ErrorEvent("get_iso_codes_for_countries")>>
                   \o DelayAfter("get_iso_codes_for_countries", TRUE)
    /\ UNCHANGED <<entry, inputState, fetchState, country_qids, iso_batch_size, iso_mapping,
                   firstCode, lastCode, checkState>>

\* Lines 183-188 return the bindings.
IsoQueryReturns ==
    /\ pc = "iso_query"
    /\ pc' = "iso_bindings"
    /\ log' = log \o <<QueryEvent("get_iso_codes_for_countries", IsoBatchQids)>>
    /\ UNCHANGED <<entry, inputState, fetchState, isoState, checkState>>

\* The history of the first code each country was given.
NoteFirstCode(h, b) ==
    LET qid == LastSegmentOf(b.country)
    IN IF qid # "" /\ TruthyText(b.isoCode) /\ ~DictHas(h, qid)
       THEN DictPut(h, qid, b.isoCode[1])
       ELSE h

\* The history of the last code each country was given.
NoteLastCode(h, b) ==
    LET qid == LastSegmentOf(b.country)
    IN IF qid # "" /\ TruthyText(b.isoCode)
       THEN DictPut(h, qid, b.isoCode[1])
       ELSE h

\* Lines 190-196: one iteration of the loop over the bindings.
IsoBinding(b) ==
    /\ pc = "iso_bindings"
    /\ iso_k < MaxBindings
    /\ iso_k' = iso_k + 1
    /\ iso_mapping' = MergeIsoBinding(iso_mapping, b)
    /\ firstCode' = NoteFirstCode(firstCode, b)
    /\ lastCode' = NoteLastCode(lastCode, b)
    /\ UNCHANGED <<pc, entry, inputState, log, fetchState, country_qids, iso_batch_size, iso_i,
                   checkState>>

\* Lines 191-192 raise on a malformed binding: line 198; the rest of the
\* batch's bindings is dropped.
IsoBindingRaises ==
    /\ pc = "iso_bindings"
    /\ iso_k < MaxBindings
    /\ NextIsoBatch
    /\ log' = log \o <<ErrorEvent("get_iso_codes_for_countries")>> \o DelayAfter("get_iso_codes_for_countries", TRUE)
    /\ UNCHANGED <<entry, inputState, fetchState, country_qids, iso_batch_size, iso_mapping,
                   firstCode, lastCode, checkState>>

\* The bindings are exhausted: line 199.
IsoBatchDone ==
    /\ pc = "iso_bindings"
    /\ NextIsoBatch
    /\ log' = log \o DelayAfter("get_iso_codes_for_countries", FALSE)
    /\ UNCHANGED <<entry, inputState, fetchState, country_qids, iso_batch_size, iso_mapping,
                   firstCode, lastCode, checkState>>

\* Line 202.
IsoReturn ==
    /\ pc = "iso_return"
    /\ pc' = AfterIso
    /\ UNCHANGED <<entry, inputState, log, fetchState, isoState, checkState>>

\* The country lists get_iso_codes_for_countries is tried on. main passes a
\* list without repetition; the lists with a repeated country are those on
\* which bindings of one country arrive in different batches.
IsoCountryPool == {"Q30", "Q142"}

IsoCodes == {None, Some(<<>>), Some(CodeUSA), Some(CodeUsaLower), Some(CodeFraPadded)}

InitIso ==
    /\ entry = "get_iso_codes_for_countries"
    /\ country_qids \in UNION {[1..n -> IsoCountryPool] : n \in 0..MaxQids}
    /\ iso_batch_size \in 1..MaxBatchSize
    /\ iso_i = 0
    /\ iso_k = 0
    /\ iso_mapping = EmptyDict
    /\ firstCode = EmptyDict
    /\ lastCode = EmptyDict
    /\ pc = IF Len(country_qids) > 0 THEN "iso_query" ELSE "iso_return"
    /\ qids = <<>>
    /\ batch_size = 1
    /\ i = 0
    /\ k = 0
    /\ item_data = EmptyDict
    /\ lastRaw = EmptyDict
    /\ raised = {}
    /\ country_geometries = EmptyDict
    /\ j = 0
    /\ results = <<>>
    /\ wikitext = <<>>
    /\ snapshot = NoSnapshot
    /\ log = <<>>
    /\ ScriptsIdle

NextIso ==
    \/ IsoQueryRaises
    \/ IsoQueryReturns
    \/ \E b \in IsoBindingsFor(IsoBatchQids, IsoCodes) : IsoBinding(b)
    \/ IsoBindingRaises
    \/ IsoBatchDone
    \/ IsoReturn

SpecIso == InitIso /\ [][NextIso]_vars

\* C9: the mapping holds, for every country, the (stripped, upper-cased)
\* first code a binding carried for it, within a batch and across batches.
C9_FirstCodeWins ==
    /\ DictKeys(iso_mapping) = DictKeys(firstCode)
    /\ \A c \in DictKeys(firstCode) :
         DictGet(iso_mapping, c) = Upper(Strip(DictGet(firstCode, c)))

\* C9 witness: Q30 was given "usa" and, in a later batch, " fra "; the
\* returned mapping holds "USA".
C9_Witness ==
    /\ pc = "done"
    /\ entry = "get_iso_codes_for_countries"
    /\ country_qids = <<"Q30", "Q30">>
    /\ iso_batch_size = 1
    /\ DictHas(firstCode, "Q30")
    /\ DictGet(firstCode, "Q30") = CodeUsaLower
    /\ DictGet(lastCode, "Q30") = CodeFraPadded
    /\ DictGet(iso_mapping, "Q30") = CodeUSA

-----------------------------------------------------------------------------
(* get_country_geometries_geopandas: the reference dataset *)

EmptyGeometry == [ValidBox(0, 0, 0, 0) EXCEPT !.empty = TRUE]

\* The rows of the Natural Earth table: the ISO A3 column and the geometry.
NaturalEarth ==
    << [code |-> CodeUSA, geometry |-> Some(ValidBox(0, 4, 0, 2))],
       [code |-> CodeFRA, geometry |-> Some(EmptyGeometry)] >>

\* Lines 268-271: world[world[iso_col] == iso_code], then geometry.iloc[0].
FirstMatch(world, iso_code) ==
    LET rows == {x \in DOMAIN world : world[x].code = iso_code}
    IN IF rows = {} THEN None
       ELSE world[CHOOSE x \in rows : \A y \in rows : x <= y].geometry

\* Variant: only the first country of the mapping is matched.
MatchGeometries_FirstOnly(geometries, mapping, world) ==
    IF mapping = <<>> THEN geometries
    ELSE LET qid == Head(mapping)[1]
             geom == FirstMatch(world, Head(mapping)[2])
         IN IF geom # None /\ ~geom[1].empty
            THEN DictPut(geometries, qid, geom[1])
            ELSE geometries

RECURSIVE MatchGeometries_KeepsEmpty(_, _, _)
\* Variant: a matched geometry is stored without looking at is_empty.
MatchGeometries_KeepsEmpty(geometries, mapping, world) ==
    IF mapping = <<>> THEN geometries
    ELSE LET qid == Head(mapping)[1]
             geom == FirstMatch(world, Head(mapping)[2])
             next == IF geom # None
                     THEN DictPut(geometries, qid, geom[1])
                     ELSE geometries
         IN MatchGeometries_KeepsEmpty(next, Tail(mapping), world)

RECURSIVE MatchGeometries(_, _, _)
\* Lines 266-276. The loop runs over a set, in an order that is not fixed;
\* the order only decides the insertion order of the result, which nothing
\* reads.
MatchGeometries(geometries, mapping, world) ==
    IF mapping = <<>> THEN geometries
    ELSE LET qid == Head(mapping)[1]
             geom == FirstMatch(world, Head(mapping)[2])
             next == IF geom # None /\ ~geom[1].empty
                     THEN DictPut(geometries, qid, geom[1])
                     ELSE geometries
         IN MatchGeometries(next, Tail(mapping), world)

\* Lines 222-281 after the codes are known: the dataset fails to load or has
\* no ISO column (the result is {}), or the countries are matched. Then
\* main calls check_coordinates (line 423).
GeoLoad ==
    /\ pc = "geo_load"
    /\ \E outcome \in {"loaded", "raise", "no_iso_column"} :
         country_geometries' =
           IF outcome = "loaded"
           THEN MatchGeometries(EmptyDict, iso_mapping, NaturalEarth)
           ELSE EmptyDict
    /\ pc' = "check_loop"
    /\ log' = log \o <<CallEvent("check_coordinates")>>
    /\ UNCHANGED <<entry, inputState, fetchState, isoState, j, results>>

-----------------------------------------------------------------------------
(* main *)

\* Variant: stage 2 is called whatever stage 1 returned.
MainScrape_Unguarded ==
    /\ pc = "main_start"
    /\ \E n \in 0..MaxQids : qids' = SubSeq(QidPool, 1, n)
    /\ pc' = "fetch_query"
    /\ log' = log \o <<CallEvent("get_qids_from_wikitext"),
                        CallEvent("get_wikidata_item_details")>>
    /\ UNCHANGED <<entry, inputState, batch_size, i, k, item_data, lastRaw,
                   raised, isoState, checkState>>

\* Lines 388-400: stage 1 returns a sorted list without repetition, empty
\* when the page could not be fetched or names no identifier.
MainScrape ==
    /\ pc = "main_start"
    /\ \E n \in 0..MaxQids : qids' = SubSeq(QidPool, 1, n)
    /\ pc' = IF Len(qids') > 0 THEN "fetch_query" ELSE "halt_no_qids"
    /\ log' = log \o <<CallEvent("get_qids_from_wikitext")>>
                   \o IF Len(qids') > 0
                      THEN <<CallEvent("get_wikidata_item_details")>>
                      ELSE <<>>
    /\ UNCHANGED <<entry, inputState, batch_size, i, k, item_data, lastRaw, raised, isoState,
                   checkState>>

\* Lines 406-409.
UniqueCountryQids(d) ==
    {d[x][2].country_qid[1] :
       x \in {y \in DOMAIN d : /\ "error" \notin DOMAIN d[y][2]
                              /\ Truthy(RecGet(d[y][2], "country_qid"))}}

\* list(a_set): the elements in some order
ListsOf(S) ==
    {f \in [1..Cardinality(S) -> S] : \A x, y \in DOMAIN f : x # y => f[x] # f[y]}

\* Lines 404-419 and 464-465.
MainAfterFetch ==
    /\ pc = "main_fetched"
    /\ IF item_data = EmptyDict
       THEN pc' = "halt_no_details" /\ UNCHANGED country_qids
       ELSE IF UniqueCountryQids(item_data) = {}
       THEN pc' = "check_loop" /\ UNCHANGED country_qids
       ELSE /\ country_qids' \in ListsOf(UniqueCountryQids(item_data))
            /\ pc' = "iso_query"
    /\ log' = log \o (IF item_data = EmptyDict THEN <<>>
                    ELSE IF UniqueCountryQids(item_data) = {}
                    THEN <<CallEvent("check_coordinates")>>
                    ELSE <<CallEvent("get_country_geometries_geopandas")>>)
    /\ UNCHANGED <<entry, inputState, fetchState, iso_batch_size, iso_i, iso_k, iso_mapping,
                   firstCode, lastCode, checkState>>

\* Lines 425-462: the report is printed.
MainReport ==
    /\ pc = "main_report"
    /\ pc' = "reported"
    /\ log' = log \o <<CallEvent("report")>>
    /\ UNCHANGED <<entry, inputState, fetchState, isoState, checkState>>

\* What the remote service answers in the runs of main: a row with a
\* coordinate and a country, or a row with neither.
MainBindingsFor(batch) ==
    BindingsFrom(batch, {Some("a")}, {Some(WktPoint(7, 6))},
                 CountriesAmong({"Q30", "Q99"}) \ CountriesAmong({}))
    \cup BindingsFrom(batch, {Some("a")}, {None}, CountriesAmong({}))

\* Q30 has the code "USA"; Q99 has a code the reference dataset does not
\* hold, or one whose geometry in the dataset is empty.
MainIsoBindingsFor(batch) ==
    {[country |-> Some(EntityUri(c)), isoCode |-> Some(code)] :
        <<c, code>> \in {cc \in SeqRange(batch) \X {CodeUSA, CodeXKX, CodeFRA} :
                           cc[2] = CodeUSA <=> cc[1] = "Q30"}}

\* Lines 47-49 and 384-387: main starts with nothing fetched; the batch size of
\* the code lookup is twice the batch size of the detail queries.
Init ==
    /\ entry = "main"
    /\ pc = "main_start"
    /\ qids = <<>>
    /\ batch_size \in 1..MaxBatchSize
    /\ i = 0
    /\ k = 0
    /\ item_data = EmptyDict
    /\ lastRaw = EmptyDict
    /\ raised = {}
    /\ country_qids = <<>>
    /\ iso_batch_size = 2 * batch_size
    /\ iso_i = 0
    /\ iso_k = 0
    /\ iso_mapping = EmptyDict
    /\ firstCode = EmptyDict
    /\ lastCode = EmptyDict
    /\ country_geometries = EmptyDict
    /\ j = 0
    /\ results = <<>>
    /\ wikitext = <<>>
    /\ snapshot = NoSnapshot
    /\ log = <<>>
    /\ ScriptsIdle

Next ==
    \/ MainScrape
    \/ FetchQueryRaises
    \/ FetchQueryReturns
    \/ \E b \in MainBindingsFor(BatchQids) : FetchBinding(b)
    \/ FetchBindingSkipped
    \/ FetchBindingRaises
    \/ FetchBatchDone
    \/ FetchReturn
    \/ MainAfterFetch
    \/ IsoQueryRaises
    \/ IsoQueryReturns
    \/ \E b \in MainIsoBindingsFor(IsoBatchQids) : IsoBinding(b)
    \/ IsoBindingRaises
    \/ IsoBatchDone
    \/ IsoReturn
    \/ GeoLoad
    \/ CheckRecord
    \/ CheckReturn
    \/ MainReport

Spec == Init /\ [][Next]_vars

-----------------------------------------------------------------------------
(* The claims about main (Spec) and get_wikidata_item_details (SpecFetch) *)

\* C3: in every result, the coordinate is present exactly when the status is
\* neither missing-coordinate nor fetch-error.
C3_CoordinateXorMissing ==
    \A x \in DOMAIN results :
      (results[x].coordinate # None)
        <=> ~(results[x].status = StatusMissingCoordinate
              \/ IsFetchError(results[x].status))

\* C3 witness: a run of main reports a record without coordinate as
\* missing-coordinate and a record with a coordinate as Outside.
C3_Witness ==
    /\ pc = "reported"
    /\ \E x \in DOMAIN results :
         /\ results[x].coordinate = None
         /\ results[x].status = StatusMissingCoordinate
    /\ \E x \in DOMAIN results :
         /\ results[x].coordinate # None
         /\ results[x].status = StatusOutside

\* a binding processed in this step carried, for `field`, a value that
\* differs from the one an earlier binding of the batch carried for `qid`
Conflict(qid, field) ==
    /\ DictHas(lastRaw, qid)
    /\ DictGet(lastRaw, qid)[field] # None
    /\ DictGet(lastRaw', qid)[field] # DictGet(lastRaw, qid)[field]

\* the value a raw field denotes: the label itself, the last segment of a
\* country URI, the (lat, lon) pair a Point(<lon> <lat>) text names
ValueOfRaw(field, raw) ==
    IF field = "coord"
    THEN IF raw[1].kind = "Point"
         THEN Some([lat |-> raw[1].second, lon |-> raw[1].first])
         ELSE None
    ELSE IF field = "country" THEN Some(SplitLast(raw[1]))
    ELSE raw

\* the raw value can be stored: it is not empty and, for a coordinate, it is
\* a Point text in range
UsableRaw(field, raw) ==
    IF field = "coord"
    THEN /\ raw[1].kind = "Point"
         /\ -90 <= raw[1].second /\ raw[1].second <= 90
         /\ -180 <= raw[1].first /\ raw[1].first <= 180
    ELSE IF field = "country" THEN SplitLast(raw[1]) # ""
    ELSE raw[1] # ""

\* the key of the record that stores a raw field
StoredAs(field) ==
    IF field = "coord" THEN "coordinate"
    ELSE IF field = "country" THEN "country_qid"
    ELSE IF field = "countryLabel" THEN "country_label"
    ELSE "label"

RawFields == {"label", "coord", "country", "countryLabel"}

C10_RaisedBatchIsFetchError ==
    pc = "reported" =>
      \A qid \in raised :
        \E x \in DOMAIN results :
          results[x].qid = qid /\ IsFetchError(results[x].status)

\* the identifiers of the batch being processed (none outside the fetcher)
CurrentBatch ==
    IF pc \in {"fetch_query", "fetch_bindings"} THEN SeqRange(BatchQids) ELSE {}

\* the record of qid is the same before and after the step
SameRecord(qid) ==
    /\ DictHas(item_data, qid) <=> DictHas(item_data', qid)
    /\ DictHas(item_data, qid) => DictGet(item_data', qid) = DictGet(item_data, qid)

\* C11: a step of get_wikidata_item_details changes no record of an
\* identifier outside the batch being processed, whether the batch succeeds
\* or raises; and a step in which the batch raises goes on to the next
\* slice, which is queried if identifiers remain.
C11_FailedBatchIsScoped ==
    [][/\ \A qid \in SeqRange(qids) \ CurrentBatch : SameRecord(qid)
       /\ raised' # raised
            => /\ i' = i + batch_size
               /\ pc' = IF i' < Len(qids) THEN "fetch_query" ELSE "fetch_return"]_vars

\* C11 witness: with batches of one identifier, the batch of Q1 raised, the
\* batch of Q2 was queried after it, and Q2 has the record its bindings give.
C11_Witness ==
    /\ pc = "reported"
    /\ qids = <<"Q1", "Q2">>
    /\ batch_size = 1
    /\ raised = {"Q1"}
    /\ DictHas(item_data, "Q1") /\ DictHas(item_data, "Q2")
    /\ "error" \in DOMAIN DictGet(item_data, "Q1")
    /\ "error" \notin DOMAIN DictGet(item_data, "Q2")
    /\ DictGet(item_data, "Q2").coordinate = Coordinate(7, 6)
    /\ DictGet(item_data, "Q2").country_qid = Some("Q30")
    /\ \E x \in DOMAIN log :
         log[x] = QueryEvent("get_wikidata_item_details", <<"Q2">>)

\* main has called `stage` (or, for "report", printed the report)
Called(stage) == \E x \in DOMAIN log : log[x] = CallEvent(stage)

\* get_wikidata_item_details has returned to main
FetchReturned ==
    entry = "main" /\ pc \notin {"main_start", "halt_no_qids", "fetch_query",
                                 "fetch_bindings", "fetch_return"}

\* every batch of a non-empty identifier list raised, and left nothing but
\* error records
EveryBatchFailed ==
    /\ qids # <<>>
    /\ raised = SeqRange(qids)
    /\ \A x \in DOMAIN item_data : "error" \in DOMAIN item_data[x][2]

\* C12: when every batch of get_wikidata_item_details failed, main halts
\* with the message and calls neither the geometry resolver nor
\* check_coordinates, and prints no report.
C12_TotalFetchFailureHalts ==
    (FetchReturned /\ EveryBatchFailed)
      => /\ pc \in {"main_fetched", "halt_no_details"}
         /\ ~Called("get_country_geometries_geopandas")
         /\ ~Called("check_coordinates")
         /\ ~Called("report")

\* C13: when stage 1 has returned no identifier, the run is at the halt
\* message of line 467 with nothing else done: stage 1 is the only call,
\* no query was issued, no record, geometry or result exists.
C13_NoIdentifiersHaltsCleanly ==
    (entry = "main" /\ pc # "main_start" /\ qids = <<>>)
      => /\ pc = "halt_no_qids"
         /\ log = <<CallEvent("get_qids_from_wikitext")>>
         /\ item_data = EmptyDict
         /\ raised = {}
         /\ country_qids = <<>>
         /\ iso_mapping = EmptyDict
         /\ country_geometries = EmptyDict
         /\ results = <<>>

\* C13 witness: stage 1 returned the empty list and the run has halted.
C13_Witness ==
    /\ entry = "main"
    /\ pc = "halt_no_qids"
    /\ qids = <<>>
    /\ log = <<CallEvent("get_qids_from_wikitext")>>

-----------------------------------------------------------------------------
(* get_qids_from_wikitext: the page text is a sequence of character codes *)

\* longest page, counted in the pieces of PagePieces it is made of
MaxPieces == 3

IsDigit(c) == c \in 48..57

RECURSIVE DigitsEnd(_, _)
\* [0-9]* from position p: the position of the last digit of the run
\* (p - 1 when there is none)
DigitsEnd(text, p) ==
    IF p <= Len(text) /\ IsDigit(text[p]) THEN DigitsEnd(text, p + 1) ELSE p - 1

\* the character at position p, 0 beyond the end of the text
CharAt(text, p) == IF p \in DOMAIN text THEN text[p] ELSE 0

\* \[\[(Q[0-9]+)\]\] tried at position p: the position of the match's last
\* character, or 0 when there is no match at p. The digits are taken
\* greedily; giving digits back never helps, since "]" must follow.
MatchEnd(text, p) ==
    LET e == DigitsEnd(text, p + 3)
    IN IF /\ CharAt(text, p) = 91 /\ CharAt(text, p + 1) = 91
          /\ CharAt(text, p + 2) = 81
          /\ e >= p + 3
          /\ CharAt(text, e + 1) = 93 /\ CharAt(text, e + 2) = 93
       THEN e + 2 ELSE 0

RECURSIVE FindAllFrom(_, _)
\* re.findall scans from the left; after a match it goes on behind the
\* match; the list holds group 1, the text "Q<digits>".
FindAllFrom(text, p) ==
    IF p > Len(text) THEN <<>>
    ELSE LET end == MatchEnd(text, p)
         IN IF end > 0
            THEN <<SubSeq(text, p + 2, end - 2)>> \o FindAllFrom(text, end + 1)
            ELSE FindAllFrom(text, p + 1)

\* Line 69.
FindAll(text) == FindAllFrom(text, 1)

RECURSIVE SortedList(_)
\* sorted(list(a_set)) of a set of str: ascending by Python's < on str
SortedList(S) ==
    IF S = {} THEN <<>>
    ELSE LET least == CHOOSE a \in S : \A b \in S \ {a} : LexLess(a, b)
         IN <<least>> \o SortedList(S \ {least})

\* Variant: the matches are returned as found.
ScrapedQids_AsFound(text) == FindAll(text)

\* Lines 61 and 69-72: qids.update(found_qids); sorted(list(qids)).
ScrapedQids(text) == SortedList(SeqRange(FindAll(text)))

\* "[[Q1]]", "[[Q10]]", "[[Q2]]": three links to items
PieceQ1 == <<91, 91, 81, 49, 93, 93>>

PieceQ10 == <<91, 91, 81, 49, 48, 93, 93>>

PieceQ2 == <<91, 91, 81, 50, 93, 93>>

\* "[[P2]]", "[[Q]]", "Q2 ", "[[Q2]", "]", "[": text that holds no
\* link to an item by itself
PieceP2 == <<91, 91, 80, 50, 93, 93>>

PieceQ == <<91, 91, 81, 93, 93>>

PieceBare == <<81, 50, 32>>

PieceOpen == <<91, 91, 81, 50, 93>>

PieceClose == <<93>>

PieceBracket == <<91>>

PagePieces ==
    {PieceQ1, PieceQ10, PieceQ2, PieceP2, PieceQ, PieceBare, PieceOpen,
     PieceClose, PieceBracket}

RECURSIVE Concat(_)
Concat(pieces) ==
    IF pieces = <<>> THEN <<>> ELSE Head(pieces) \o Concat(Tail(pieces))

\* Lines 66-72: the page is fetched and the identifiers are returned.
ScrapeReturns ==
    /\ pc = "scrape"
    /\ qids' = ScrapedQids(wikitext)
    /\ pc' = "done"
    /\ UNCHANGED <<entry, inputState, log, batch_size, i, k, item_data, lastRaw,
                   raised, isoState, checkState>>

\* Lines 73-78: a RequestException or any other exception is caught and the
\* empty list is returned.
ScrapeRaises ==
    /\ pc = "scrape"
    /\ qids' = <<>>
    /\ log' = log \o <<ErrorEvent("get_qids_from_wikitext")>>
    /\ pc' = "done"
    /\ UNCHANGED <<entry, inputState, batch_size, i, k, item_data, lastRaw,
                   raised, isoState, checkState>>

\* nothing of stages 2 to 4 has run
StagesIdle ==
    /\ batch_size = 1
    /\ i = 0
    /\ k = 0
    /\ item_data = EmptyDict
    /\ lastRaw = EmptyDict
    /\ raised = {}
    /\ country_qids = <<>>
    /\ iso_batch_size = 1
    /\ iso_i = 0
    /\ iso_k = 0
    /\ iso_mapping = EmptyDict
    /\ firstCode = EmptyDict
    /\ lastCode = EmptyDict
    /\ country_geometries = EmptyDict
    /\ j = 0
    /\ results = <<>>

InitScrape ==
    /\ entry = "get_qids_from_wikitext"
    /\ pc = "scrape"
    /\ \E n \in 0..MaxPieces :
         \E pieces \in [1..n -> PagePieces] : wikitext = Concat(pieces)
    /\ qids = <<>>
    /\ snapshot = NoSnapshot
    /\ log = <<>>
    /\ ScriptsIdle
    /\ StagesIdle

NextScrape ==
    \/ ScrapeReturns
    \/ ScrapeRaises

SpecScrape == InitScrape /\ [][NextScrape]_vars

\* the texts "Q<digits>" that stand between "[[" and "]]" somewhere in text
MatchingTokens(text) ==
    {SubSeq(text, p + 2, e) :
       <<p, e>> \in {pe \in (DOMAIN text) \X (DOMAIN text) :
                       /\ pe[2] >= pe[1] + 3
                       /\ pe[2] + 2 <= Len(text)
                       /\ text[pe[1]] = 91 /\ text[pe[1] + 1] = 91
                       /\ text[pe[1] + 2] = 81
                       /\ \A x \in (pe[1] + 3)..pe[2] : IsDigit(text[x])
                       /\ text[pe[2] + 1] = 93 /\ text[pe[2] + 2] = 93}}

ScrapeFailed == \E x \in DOMAIN log : log[x] = ErrorEvent("get_qids_from_wikitext")

\* C14: get_qids_from_wikitext returns, when no error occurred, the texts
\* matching [[Q<digits>]] in the page, each once, in ascending order (the
\* order of Python's str, so "Q10" comes before "Q2"); when fetching the
\* page failed it returns the empty list.
C14_SortedUniqueMatches ==
    (entry = "get_qids_from_wikitext" /\ pc = "done")
      => IF ScrapeFailed THEN qids = <<>>
         ELSE /\ SeqRange(qids) = MatchingTokens(wikitext)
              /\ \A x, y \in DOMAIN qids : x < y => LexLess(qids[x], qids[y])

\* C14 witness: the page "[[Q2]][[Q10]][[Q2]]" gives ["Q10", "Q2"].
C14_Witness ==
    /\ entry = "get_qids_from_wikitext"
    /\ pc = "done"
    /\ wikitext = PieceQ2 \o PieceQ10 \o PieceQ2
    /\ qids = << <<81, 49, 48>>, <<81, 50>> >>

-----------------------------------------------------------------------------
(* The claims about the resolver and the batching (Spec) *)

\* C15: the mapping of get_country_geometries_geopandas holds a country
\* only with the non-empty geometry the dataset has for the country's
\* resolved code; and every record with a coordinate and a claimed country
\* that the mapping does not hold ends as missing-geometry.
C15_UnresolvedIsMissingGeometry ==
    /\ \A c \in DictKeys(country_geometries) :
         /\ DictHas(iso_mapping, c)
         /\ LET geom == FirstMatch(NaturalEarth, DictGet(iso_mapping, c))
            IN /\ geom # None
               /\ ~geom[1].empty
               /\ DictGet(country_geometries, c) = geom[1]
    /\ \A x \in DOMAIN results :
         LET r == results[x]
         IN (/\ ~IsFetchError(r.status)
             /\ r.coordinate # None
             /\ r.country_qid # None
             /\ ~DictHas(country_geometries, r.country_qid[1]))
            => r.status = StatusMissingGeometry /\ r.score = None

\* C15 witness: Q30 is resolved; Q99 has the code "FRA", whose geometry in
\* the dataset is empty, and is absent from the mapping; a record with a
\* coordinate that claims Q99 is reported as missing-geometry.
C15_Witness ==
    /\ pc = "reported"
    /\ DictHas(country_geometries, "Q30")
    /\ DictHas(iso_mapping, "Q99")
    /\ DictGet(iso_mapping, "Q99") = CodeFRA
    /\ ~DictHas(country_geometries, "Q99")
    /\ \E x \in DOMAIN results :
         /\ results[x].coordinate = Coordinate(7, 6)
         /\ results[x].country_qid = Some("Q99")
         /\ results[x].status = StatusMissingGeometry

\* get_wikidata_item_details and get_iso_codes_for_countries, each called
\* on its own with a list of up to MaxQids identifiers.
InitFetchList ==
    /\ entry = "get_wikidata_item_details"
    /\ \E n \in 0..MaxQids : qids = SubSeq(QidPool, 1, n)
    /\ batch_size \in 1..MaxBatchSize
    /\ i = 0
    /\ k = 0
    /\ item_data = EmptyDict
    /\ lastRaw = EmptyDict
    /\ raised = {}
    /\ pc = IF Len(qids) > 0 THEN "fetch_query" ELSE "fetch_return"
    /\ country_qids = <<>>
    /\ iso_batch_size = 1
    /\ iso_i = 0
    /\ iso_k = 0
    /\ iso_mapping = EmptyDict
    /\ firstCode = EmptyDict
    /\ lastCode = EmptyDict
    /\ country_geometries = EmptyDict
    /\ j = 0
    /\ results = <<>>
    /\ wikitext = <<>>
    /\ snapshot = NoSnapshot
    /\ log = <<>>
    /\ ScriptsIdle

NextFetchList ==
    \/ FetchQueryRaises
    \/ FetchQueryReturns
    \/ \E b \in MainBindingsFor(BatchQids) : FetchBinding(b)
    \/ FetchBindingSkipped
    \/ FetchBindingRaises
    \/ FetchBatchDone
    \/ FetchReturn

InitBatches == InitFetchList \/ InitIso

NextBatches == NextFetchList \/ NextIso

SpecBatches == InitBatches /\ [][NextBatches]_vars

\* the list the function was called with, and its batch_size
InputList == IF entry = "get_wikidata_item_details" THEN qids ELSE country_qids

InputBatchSize ==
    IF entry = "get_wikidata_item_details" THEN batch_size ELSE iso_batch_size

\* the events of the log with one of the given ops
EventsOf(ops) == SelectSeq(log, LAMBDA e : e.op \in ops)

\* the batches queried so far, in order
QueriedBatches ==
    LET qs == EventsOf({"query"}) IN [x \in DOMAIN qs |-> qs[x].batch]

\* range(0, num_qids, batch_size) has ceil(num_qids / batch_size) elements
NumBatches(list, size) == (Len(list) + size - 1) \div size

BatchingReturned ==
    /\ entry \in {"get_wikidata_item_details", "get_iso_codes_for_countries"}
    /\ pc = "done"

\* C16: in the queries and delays of a stage, in the order they happen, a
\* query and a delay alternate, starting with a query: one delay follows
\* every batch, failed or not, and stands between any two queries; when the
\* stage returns there are as many delays as batches.
C16_OneDelayAfterEveryBatch ==
    LET evs == EventsOf({"query", "sleep"})
    IN /\ \A x \in DOMAIN evs :
            evs[x].op = IF x % 2 = 1 THEN "query" ELSE "sleep"
       /\ BatchingReturned
            => Len(evs) = 2 * NumBatches(InputList, InputBatchSize)

\* C16 witness: two batches of get_wikidata_item_details, the first raised,
\* the second did not; each is followed by one delay.
C16_Witness ==
    /\ BatchingReturned
    /\ log = <<QueryEvent("get_wikidata_item_details", <<"Q1">>),
               ErrorEvent("get_wikidata_item_details"),
               SleepEvent("get_wikidata_item_details"),
               QueryEvent("get_wikidata_item_details", <<"Q2">>),
               SleepEvent("get_wikidata_item_details")>>

\* C17: the batches queried are the consecutive slices of the input list:
\* their concatenation is the part of the list dealt with so far (the whole
\* list when the stage returns), each has between 1 and batch_size
\* identifiers and all but the last have batch_size; so every position of
\* the list is sent in exactly one query, also when a query fails.
C17_EachBatchQueriedOnce ==
    LET batches == QueriedBatches
        sent == Concat(batches)
    IN /\ Len(sent) <= Len(InputList)
       /\ sent = SubSeq(InputList, 1, Len(sent))
       /\ \A x \in DOMAIN batches :
            /\ Len(batches[x]) \in 1..InputBatchSize
            /\ x < Len(batches) => Len(batches[x]) = InputBatchSize
       /\ BatchingReturned => sent = InputList

\* C17 witness: get_iso_codes_for_countries was called with two countries
\* and batch size 1; the query of the first batch raised and the second
\* batch was queried next, each once.
C17_Witness ==
    /\ BatchingReturned
    /\ entry = "get_iso_codes_for_countries"
    /\ country_qids = <<"Q30", "Q142">>
    /\ iso_batch_size = 1
    /\ log = <<QueryEvent("get_iso_codes_for_countries", <<"Q30">>),
               ErrorEvent("get_iso_codes_for_countries"),
               SleepEvent("get_iso_codes_for_countries"),
               QueryEvent("get_iso_codes_for_countries", <<"Q142">>),
               SleepEvent("get_iso_codes_for_countries")>>

\* the place of a stage in the pipeline
StageRank(stage) ==
    IF stage = "get_qids_from_wikitext" THEN 1
    ELSE IF stage = "get_wikidata_item_details" THEN 2
    ELSE IF stage = "get_country_geometries_geopandas" THEN 3
    ELSE IF stage = "check_coordinates" THEN 4
    ELSE 5

\* the stage of main a function runs in
StageOfFunction(function) ==
    IF function = "get_iso_codes_for_countries"
    THEN "get_country_geometries_geopandas" ELSE function

\* the stage the program position lies in, "main" between the stages
StageOfPc ==
    IF pc \in {"fetch_query", "fetch_bindings", "fetch_return"}
    THEN "get_wikidata_item_details"
    ELSE IF pc \in {"iso_query", "iso_bindings", "iso_return", "geo_load"}
    THEN "get_country_geometries_geopandas"
    ELSE IF pc = "check_loop" THEN "check_coordinates"
    ELSE "main"

\* the last stage called before position x of the log
LastCallBefore(x) ==
    LET calls == {y \in 1..(x - 1) : log[y].op = "call"}
    IN IF calls = {} THEN "main"
       ELSE log[CHOOSE y \in calls : \A z \in calls : z <= y].stage

\* C18: the calls of main come in the order Scraper, Fetcher, Resolver,
\* Scorer (then the report), each at most once; whatever a stage does (its
\* queries, delays and caught errors, and the program position) happens
\* while that stage is the last one called, so no stage runs before the
\* previous one returned or again after a later one started.
C18_StagesInOrder ==
    /\ \A x, y \in DOMAIN log :
         (x < y /\ log[x].op = "call" /\ log[y].op = "call")
           => StageRank(log[x].stage) < StageRank(log[y].stage)
    /\ \A x \in DOMAIN log :
         log[x].op # "call" => LastCallBefore(x) = StageOfFunction(log[x].stage)
    /\ StageOfPc # "main" => LastCallBefore(Len(log) + 1) = StageOfPc

\* C18 witness: a run of main that called all four stages and printed the
\* report.
C18_Witness ==
    /\ pc = "reported"
    /\ EventsOf({"call"}) =
         <<CallEvent("get_qids_from_wikitext"),
           CallEvent("get_wikidata_item_details"),
           CallEvent("get_country_geometries_geopandas"),
           CallEvent("check_coordinates"),
           CallEvent("report")>>
    /\ \E x \in DOMAIN log : log[x].op = "query" /\ log[x].stage = "get_iso_codes_for_countries"

-----------------------------------------------------------------------------
(* Runs on remote data fixed in advance                                    *)

\* The world a run meets: the identifiers the page names, the rows the
\* query service holds for the detail query and for the code query (a
\* response is the rows whose ?item, resp. ?country, is in the VALUES
\* clause, in the order of the table), whether the dataset loads, and the
\* identifiers for which the service is down (a query naming one raises).
Snapshot(page, rows, codes, dataset, down) ==
    [page |-> page, rows |-> rows, codes |-> codes, dataset |-> dataset,
     down |-> down]

\* Variant: the detail query carries LIMIT 1.
Response_FirstRow(batch) ==
    LET all == SelectSeq(snapshot.rows,
                         LAMBDA b : LastSegmentOf(b.item) \in SeqRange(batch))
    IN SubSeq(all, 1, Min(1, Len(all)))

\* the response to the detail query for `batch`
Response(batch) ==
    SelectSeq(snapshot.rows, LAMBDA b : LastSegmentOf(b.item) \in SeqRange(batch))

\* the response to the code query for `batch`
IsoResponse(batch) ==
    SelectSeq(snapshot.codes, LAMBDA b : LastSegmentOf(b.country) \in SeqRange(batch))

QueryFails(batch) == SeqRange(batch) \cap snapshot.down # {}

\* the tables of up to n rows drawn from `pool`
Tables(pool, n) == UNION {[1..m -> pool] : m \in 0..n}

\* Lines 388-402: stage 1 returns the identifiers the page names.
SnapScrape ==
    /\ pc = "main_start"
    /\ qids' = snapshot.page
    /\ pc' = IF Len(qids') > 0 THEN "fetch_query" ELSE "halt_no_qids"
    /\ log' = log \o <<CallEvent("get_qids_from_wikitext")>>
                   \o IF Len(qids') > 0
                      THEN <<CallEvent("get_wikidata_item_details")>>
                      ELSE <<>>
    /\ UNCHANGED <<entry, inputState, batch_size, i, k, item_data, lastRaw, raised, isoState,
                   checkState>>

SnapFetchQueryRaises ==
    /\ pc = "fetch_query"
    /\ QueryFails(BatchQids)
    /\ FetchQueryRaises
    /\ item_data' = MarkErrors(item_data, BatchQids, MsgTimeout)

SnapFetchQueryReturns ==
    /\ pc = "fetch_query"
    /\ ~QueryFails(BatchQids)
    /\ FetchQueryReturns

SnapFetchBinding ==
    /\ pc = "fetch_bindings"
    /\ k < Len(Response(BatchQids))
    /\ FetchBinding(Response(BatchQids)[k + 1])

SnapFetchBatchDone ==
    /\ pc = "fetch_bindings"
    /\ k = Len(Response(BatchQids))
    /\ FetchBatchDone

SnapIsoQueryRaises ==
    /\ pc = "iso_query"
    /\ QueryFails(IsoBatchQids)
    /\ IsoQueryRaises

SnapIsoQueryReturns ==
    /\ pc = "iso_query"
    /\ ~QueryFails(IsoBatchQids)
    /\ IsoQueryReturns

SnapIsoBinding ==
    /\ pc = "iso_bindings"
    /\ iso_k < Len(IsoResponse(IsoBatchQids))
    /\ IsoBinding(IsoResponse(IsoBatchQids)[iso_k + 1])

SnapIsoBatchDone ==
    /\ pc = "iso_bindings"
    /\ iso_k = Len(IsoResponse(IsoBatchQids))
    /\ IsoBatchDone

SnapGeoLoad ==
    /\ GeoLoad
    /\ country_geometries' =
         IF snapshot.dataset = "loaded"
         THEN MatchGeometries(EmptyDict, iso_mapping, NaturalEarth)
         ELSE EmptyDict

NextSnapFetch ==
    \/ SnapFetchQueryRaises
    \/ SnapFetchQueryReturns
    \/ SnapFetchBinding
    \/ SnapFetchBatchDone
    \/ FetchReturn

NextSnapIso ==
    \/ SnapIsoQueryRaises
    \/ SnapIsoQueryReturns
    \/ SnapIsoBinding
    \/ SnapIsoBatchDone
    \/ IsoReturn

(* The same computations as functions of the snapshot *)

RECURSIVE MergeAll(_, _)
\* the loop of line 112 over a whole response
MergeAll(d, bindings) ==
    IF bindings = <<>> THEN d
    ELSE MergeAll(MergeBinding(d, Head(bindings)), Tail(bindings))

RECURSIVE FetchFrom(_, _, _, _)
\* the loop of line 92 from offset `at`
FetchFrom(d, list, size, at) ==
    IF at >= Len(list) THEN d
    ELSE LET batch == SubSeq(list, at + 1, Min(at + size, Len(list)))
             next == IF QueryFails(batch)
                     THEN MarkErrors(d, batch, MsgTimeout)
                     ELSE MergeAll(d, Response(batch))
         IN FetchFrom(next, list, size, at + size)

\* get_wikidata_item_details(list, size)
FetchedWith(list, size) == FetchFrom(EmptyDict, list, size, 0)

RECURSIVE MergeIsoAll(_, _)
\* the loop of line 190 over a whole response
MergeIsoAll(m, bindings) ==
    IF bindings = <<>> THEN m
    ELSE MergeIsoAll(MergeIsoBinding(m, Head(bindings)), Tail(bindings))

RECURSIVE IsoFrom(_, _, _, _)
\* the loop of line 170 from offset `at`
IsoFrom(m, list, size, at) ==
    IF at >= Len(list) THEN m
    ELSE LET batch == SubSeq(list, at + 1, Min(at + size, Len(list)))
             next == IF QueryFails(batch) THEN m
                     ELSE MergeIsoAll(m, IsoResponse(batch))
         IN IsoFrom(next, list, size, at + size)

\* get_iso_codes_for_countries(list, size)
CodesWith(list, size) == IsoFrom(EmptyDict, list, size, 0)

\* a dict as a mapping: its items without their order (dict == dict)
AsMapping(d) == SeqRange(d)

-----------------------------------------------------------------------------
(* The two batched stages, each called alone on a snapshot *)

\* the rows the service may hold about the identifiers of `list`
SnapBindingsFor(list) ==
    BindingsFrom(list, {Some("a")}, {None, Some(WktPoint(7, 6))},
                 CountriesAmong({"Q30", "Q99"}))

\* the rows the service may hold about the codes of the countries of `list`
SnapIsoBindingsFor(list) ==
    IsoBindingsFor(list, {Some(CodeUSA), Some(CodeUsaLower), Some(CodeFraPadded)})

\* the sets of identifiers the service may be down for
Outages == {{}, {"Q1"}, {"Q30"}}

InitSnapFetch ==
    /\ entry = "get_wikidata_item_details"
    /\ \E n \in 0..MaxQids : qids = SubSeq(QidPool, 1, n)
    /\ batch_size \in 1..MaxBatchSize
    /\ \E rows \in Tables(SnapBindingsFor(qids), MaxBindings) :
         \E down \in Outages \ {{"Q30"}} :
           snapshot = Snapshot(qids, rows, <<>>, "loaded", down)
    /\ i = 0
    /\ k = 0
    /\ item_data = EmptyDict
    /\ lastRaw = EmptyDict
    /\ raised = {}
    /\ pc = IF Len(qids) > 0 THEN "fetch_query" ELSE "fetch_return"
    /\ country_qids = <<>>
    /\ iso_batch_size = 1
    /\ iso_i = 0
    /\ iso_k = 0
    /\ iso_mapping = EmptyDict
    /\ firstCode = EmptyDict
    /\ lastCode = EmptyDict
    /\ country_geometries = EmptyDict
    /\ j = 0
    /\ results = <<>>
    /\ wikitext = <<>>
    /\ log = <<>>
    /\ ScriptsIdle

InitSnapIso ==
    /\ entry = "get_iso_codes_for_countries"
    /\ country_qids \in UNION {[1..n -> IsoCountryPool] : n \in 0..MaxQids}
    /\ iso_batch_size \in 1..MaxBatchSize
    /\ \E codes \in Tables(SnapIsoBindingsFor(country_qids), MaxBindings) :
         \E down \in Outages \ {{"Q1"}} :
           snapshot = Snapshot(<<>>, <<>>, codes, "loaded", down)
    /\ iso_i = 0
    /\ iso_k = 0
    /\ iso_mapping = EmptyDict
    /\ firstCode = EmptyDict
    /\ lastCode = EmptyDict
    /\ pc = IF Len(country_qids) > 0 THEN "iso_query" ELSE "iso_return"
    /\ qids = <<>>
    /\ batch_size = 1
    /\ i = 0
    /\ k = 0
    /\ item_data = EmptyDict
    /\ lastRaw = EmptyDict
    /\ raised = {}
    /\ country_geometries = EmptyDict
    /\ j = 0
    /\ results = <<>>
    /\ wikitext = <<>>
    /\ log = <<>>
    /\ ScriptsIdle

InitStages == InitSnapFetch \/ InitSnapIso

NextStages == NextSnapFetch \/ NextSnapIso

SpecStages == InitStages /\ [][NextStages]_vars

\* no query of the stage's run can fail
NoFailingRequest == ~QueryFails(InputList)

\* what the stage returned, as a mapping
StageResult ==
    IF entry = "get_wikidata_item_details"
    THEN AsMapping(item_data) ELSE AsMapping(iso_mapping)

\* what the stage returns when run with batch size `size`, in dict order
ReturnsWith(size) ==
    IF entry = "get_wikidata_item_details"
    THEN FetchedWith(qids, size) ELSE CodesWith(country_qids, size)

\* C19: when no request fails, what get_wikidata_item_details and
\* get_iso_codes_for_countries return on a list and a snapshot of the remote
\* data is, as a mapping, what they return on them with any other batch
\* size >= 1.
C19_BatchSizeIrrelevant ==
    (BatchingReturned /\ NoFailingRequest) =>
        \A size \in 1..MaxBatchSize : StageResult = AsMapping(ReturnsWith(size))

\* C19 witness: a stage returned from one-identifier batches, no request
\* failed, and with batches of two the same entries would have been
\* inserted in another order.
C19_Witness ==
    /\ BatchingReturned
    /\ NoFailingRequest
    /\ InputBatchSize = 1
    /\ Len(InputList) = 2
    /\ Cardinality(StageResult) = 2
    /\ ReturnsWith(2) # ReturnsWith(1)
    /\ StageResult = AsMapping(ReturnsWith(2))

-----------------------------------------------------------------------------
(* main on a snapshot *)

\* what the service may hold about one identifier of the page: nothing, or
\* one row with a coordinate outside every geometry of the dataset and
\* possibly a country
SnapRowsFor(qid) ==
    {<<>>} \cup {<<b>> : b \in BindingsFrom(<<qid>>, {Some("a")},
                                           {Some(WktPoint(7, 6))},
                                           CountriesAmong({"Q30", "Q99", "Q142"}))}

\* the code rows of the service: Q30 has the code of a country of the
\* dataset, Q99 a code the dataset does not hold, Q142 the code of a row
\* whose geometry is empty
CodeTable ==
    << [country |-> Some(EntityUri("Q30")), isoCode |-> Some(CodeUSA)],
       [country |-> Some(EntityUri("Q99")), isoCode |-> Some(CodeXKX)],
       [country |-> Some(EntityUri("Q142")), isoCode |-> Some(CodeFRA)] >>

MainOutages == {{}, {"Q1"}, {"Q99"}}

\* Lines 47-49 and 384-387 with the world fixed: the page names up to
\* MaxItems identifiers.
InitSnapshot ==
    /\ entry = "main"
    /\ pc = "main_start"
    /\ \E n \in 0..MaxItems :
         \E f \in [1..n -> UNION {SnapRowsFor(QidPool[x]) : x \in 1..n}] :
           /\ \A x \in 1..n : f[x] \in SnapRowsFor(QidPool[x])
           /\ \E codes \in {<<>>, CodeTable}, dataset \in {"loaded", "raise"},
                 down \in MainOutages :
                snapshot = Snapshot(SubSeq(QidPool, 1, n), Concat(f), codes,
                                    dataset, down)
    /\ qids = <<>>
    /\ batch_size \in 1..MaxBatchSize
    /\ i = 0
    /\ k = 0
    /\ item_data = EmptyDict
    /\ lastRaw = EmptyDict
    /\ raised = {}
    /\ country_qids = <<>>
    /\ iso_batch_size \in 1..MaxBatchSize
    /\ iso_i = 0
    /\ iso_k = 0
    /\ iso_mapping = EmptyDict
    /\ firstCode = EmptyDict
    /\ lastCode = EmptyDict
    /\ country_geometries = EmptyDict
    /\ j = 0
    /\ results = <<>>
    /\ wikitext = <<>>
    /\ log = <<>>
    /\ ScriptsIdle

NextSnapshot ==
    \/ SnapScrape
    \/ SnapFetchQueryRaises
    \/ SnapFetchQueryReturns
    \/ SnapFetchBinding
    \/ SnapFetchBatchDone
    \/ FetchReturn
    \/ MainAfterFetch
    \/ SnapIsoQueryRaises
    \/ SnapIsoQueryReturns
    \/ SnapIsoBinding
    \/ SnapIsoBatchDone
    \/ IsoReturn
    \/ SnapGeoLoad
    \/ CheckRecord
    \/ CheckReturn
    \/ MainReport

SpecSnapshot == InitSnapshot /\ [][NextSnapshot]_vars

\* get_country_geometries_geopandas on the country list in the given order
GeometriesWith(order) ==
    IF snapshot.dataset = "loaded"
    THEN MatchGeometries(EmptyDict, CodesWith(order, iso_batch_size), NaturalEarth)
    ELSE EmptyDict

\* check_coordinates(items, geoms)
CheckedWith(items, geoms) ==
    SortResults([x \in DOMAIN items |->
                   ResultOf(items[x][1], items[x][2], geoms)])

\* the records of the report of a run in which list(unique_country_qids)
\* comes out in the given order
ReportWith(order) ==
    LET items == FetchedWith(snapshot.page, batch_size)
    IN IF snapshot.page = <<>> \/ items = EmptyDict THEN <<>>
       ELSE CheckedWith(items,
                        IF UniqueCountryQids(items) = {} THEN EmptyDict
                        ELSE GeometriesWith(order))

\* the orders list(unique_country_qids) can come out in
Orders == ListsOf(UniqueCountryQids(FetchedWith(snapshot.page, batch_size)))

\* the report is out
Reported == entry = "main" /\ pc = "reported"

\* C20: the report of a run is the report of every run on the same page,
\* the same remote data and the same dataset: the same records, with the
\* same statuses and scores, in the same order.
C20_SameInputsSameReport ==
    Reported => \A order \in Orders : results = ReportWith(order)

-----------------------------------------------------------------------------
(* The claims about the coordinates get_wikidata_item_details stores       *)
(* (SpecFetch)                                                             *)

\* lat in [-90, 90] and lon in [-180, 180]
InRange(c) == -90 <= c.lat /\ c.lat <= 90 /\ -180 <= c.lon /\ c.lon <= 180

\* the records of d that are not error records
DetailKeys(d) == {q \in DictKeys(d) : "error" \notin DOMAIN DictGet(d, q)}

\* the last coordinate text a binding of `qid` carried cannot be stored
LastCoordDiscarded(qid) ==
    /\ DictGet(lastRaw', qid).coord # None
    /\ ~UsableRaw("coord", DictGet(lastRaw', qid).coord)

\* C22: every coordinate a record holds has lat in [-90, 90] and lon in
\* [-180, 180]; and a step whose last coordinate text for an identifier is
\* discarded (out of range, or not a Point) leaves the coordinate stored for
\* that identifier as it was.
C22_StoredCoordinateInRange ==
    [][/\ \A qid \in DetailKeys(item_data') :
            DictGet(item_data', qid).coordinate # None
              => InRange(DictGet(item_data', qid).coordinate[1])
       /\ \A qid \in DictKeys(lastRaw') \cap DetailKeys(item_data) :
            LastCoordDiscarded(qid)
              => DictGet(item_data', qid).coordinate
                   = DictGet(item_data, qid).coordinate]_vars

\* C22 witness: Q1 had Point(3 1), then Point(100 95) arrived for it and was
\* discarded; the record still holds (lat 1, lon 3).
C22_Witness ==
    /\ entry = "get_wikidata_item_details"
    /\ DictHas(lastRaw, "Q1")
    /\ DictGet(lastRaw, "Q1").coord = Some(WktPoint(100, 95))
    /\ DictHas(item_data, "Q1")
    /\ DictGet(item_data, "Q1").coordinate = Coordinate(3, 1)

-----------------------------------------------------------------------------
(* The claims about the point and the repair (SpecCheck) *)

\* the geometry of the country a record claims
ClaimedGeometry(data) == DictGet(country_geometries, data.country_qid[1])

\* the coordinate with latitude and longitude exchanged
Exchanged(c) == [lat |-> c.lon, lon |-> c.lat]

\* C23: the point tested is (x = lon, y = lat): when a usable geometry
\* contains (lon, lat) of a record's coordinate but not (lat, lon), the
\* record is Inside, and a record of the same country with the exchanged
\* coordinate is Outside.
C23_LongitudeThenLatitude ==
    \A x, y \in DOMAIN results :
      LET d1 == InputOf(results[x])
          d2 == InputOf(results[y])
      IN (/\ HasGeometry(d1)
          /\ HasGeometry(d2)
          /\ d1.country_qid = d2.country_qid
          /\ IsUsable(ClaimedGeometry(d1))
          /\ d2.coordinate[1] = Exchanged(d1.coordinate[1])
          /\ StrictlyInside(UsableGeometry(ClaimedGeometry(d1)), d1.coordinate[1])
          /\ ~StrictlyInside(UsableGeometry(ClaimedGeometry(d1)),
                             Exchanged(d1.coordinate[1])))
         => /\ results[x].status = StatusInside
            /\ results[y].status = StatusOutside

\* C23 witness: Q30 is the box lon 0..4, lat 0..2; the record at (lon 3,
\* lat 1) is Inside and the record at (lon 1, lat 3) is Outside.
C23_Witness ==
    /\ Returned
    /\ \E x, y \in DOMAIN results :
         /\ results[x].country_qid = Some("Q30")
         /\ results[y].country_qid = Some("Q30")
         /\ results[x].coordinate = Coordinate(3, 1)
         /\ results[y].coordinate = Coordinate(1, 3)
         /\ results[x].status = StatusInside
         /\ results[y].status = StatusOutside
         /\ results[y].score = Some(1)

\* C24: for a record whose country geometry is not valid, buffer(0) is
\* tried: if it gives a valid, non-empty geometry the record is Inside or
\* Outside as the repaired geometry contains the point or not; if it gives
\* an invalid or empty geometry, or raises, the record is a check-error with
\* score None.
C24_RepairBeforeGivingUp ==
    \A x \in DOMAIN results :
      LET r == results[x]
          data == InputOf(r)
      IN (HasGeometry(data) /\ ~ClaimedGeometry(data).valid)
         => LET g == ClaimedGeometry(data)
                repaired == [x1 |-> g.bx1, x2 |-> g.bx2, y1 |-> g.by1, y2 |-> g.by2]
            IN IF g.buf = "valid"
               THEN /\ r.status = IF StrictlyInside(repaired, data.coordinate[1])
                                  THEN StatusInside ELSE StatusOutside
                    /\ r.score # None
               ELSE IsCheckError(r.status) /\ r.score = None

\* C24 witness: Q142 is repaired to the box lon 0..2, and (lon 3, lat 1),
\* which the unrepaired box held, is Outside at distance 1; the repairs of
\* Q183 (empty) and Q213 (buffer raises) fail and give check-errors.
C24_Witness ==
    /\ Returned
    /\ \E x \in DOMAIN results :
         /\ results[x].country_qid = Some("Q142")
         /\ results[x].status = StatusOutside
         /\ results[x].score = Some(1)
    /\ \E x \in DOMAIN results :
         /\ results[x].country_qid = Some("Q183")
         /\ results[x].status = StatusInvalidGeometry
    /\ \E x \in DOMAIN results :
         /\ results[x].country_qid = Some("Q213")
         /\ results[x].status = PrefixDuringCheck \o MsgTopology

-----------------------------------------------------------------------------
(* The parse of one coordinate literal, character by character             *)
(* (coord_checker_ii.py lines 121-134).  A text is the sequence of its     *)
(* character codes; a number of degrees is an integer count of 1/Scale     *)
(* degree, so that the decimals of the literals are kept.                  *)

\* everything of the coordinate checker outside the parse
checkerState ==
    <<entry, fetchState, isoState, checkState, wikitext, snapshot, log>>

\* the coordinate checker has not run
CheckerIdle ==
    /\ qids = <<>>
    /\ wikitext = <<>>
    /\ snapshot = NoSnapshot
    /\ log = <<>>
    /\ StagesIdle

\* one degree, in the unit the numbers are counted in
Scale == 10^4

\* most whitespace characters between the parts of a literal
MaxSpaces == 2

\* "Point("
PointPrefix == <<80, 111, 105, 110, 116, 40>>

DigitVal(c) == c - 48

RECURSIVE DigitsValue(_)
\* the number a run of decimal digits writes
DigitsValue(ds) ==
    IF ds = <<>> THEN 0
    ELSE 10 * DigitsValue(SubSeq(ds, 1, Len(ds) - 1)) + DigitVal(ds[Len(ds)])

AllDigits(t) == \A x \in DOMAIN t : IsDigit(t[x])

HasSign(t) == t # <<>> /\ t[1] \in {43, 45}

Unsigned(t) == IF HasSign(t) THEN Tail(t) ELSE t

\* position of the first '.' of t, 0 when there is none
DotAt(t) ==
    IF \E x \in DOMAIN t : t[x] = 46
    THEN CHOOSE x \in DOMAIN t : t[x] = 46 /\ \A y \in 1..(x - 1) : t[y] # 46
    ELSE 0

\* Line 124: the whole of t matches [-+]?\d*\.?\d+
IsNumber(t) ==
    LET u == Unsigned(t)
        d == DotAt(u)
    IN IF d = 0 THEN u # <<>> /\ AllDigits(u)
       ELSE /\ AllDigits(SubSeq(u, 1, d - 1))
            /\ d < Len(u)
            /\ AllDigits(SubSeq(u, d + 1, Len(u)))

\* Lines 127-128: float() of a text that IsNumber accepts, in 1/Scale degree
\* (the literals of the model carry at most as many decimals as Scale keeps).
Float(t) ==
    LET u == Unsigned(t)
        d == DotAt(u)
        whole == IF d = 0 THEN u ELSE SubSeq(u, 1, d - 1)
        frac == IF d = 0 THEN <<>> ELSE SubSeq(u, d + 1, Len(u))
        magnitude == DigitsValue(whole) * Scale
                     + (DigitsValue(frac) * Scale) \div (10^Len(frac))
    IN IF HasSign(t) /\ t[1] = 45 THEN 0 - magnitude ELSE magnitude

\* first position from p on that holds no whitespace (Len + 1 at the end)
SpaceEnd(text, p) ==
    CHOOSE q \in p..(Len(text) + 1) :
        /\ \A x \in p..(q - 1) : IsSpace(text[x])
        /\ q = Len(text) + 1 \/ ~IsSpace(text[q])

\* first position from p on that holds whitespace or ')' (Len + 1 at the end)
TokenEnd(text, p) ==
    CHOOSE q \in p..(Len(text) + 1) :
        /\ \A x \in p..(q - 1) : ~IsSpace(text[x]) /\ text[x] # 41
        /\ q = Len(text) + 1 \/ IsSpace(text[q]) \/ text[q] = 41

\* Line 124: re.match(r'Point\(\s*(?P<lon>[-+]?\d*\.?\d+)\s+
\* (?P<lat>[-+]?\d*\.?\d+)\s*\)', coord_str): the two groups, or None.  No
\* character of a group is whitespace or ')', so the first group is the run
\* up to the first whitespace and the second the run up to whitespace or ')'.
PointMatch(text) ==
    IF Len(text) < Len(PointPrefix)
       \/ SubSeq(text, 1, Len(PointPrefix)) # PointPrefix
    THEN None
    ELSE LET a == SpaceEnd(text, Len(PointPrefix) + 1)
             b == TokenEnd(text, a)
             c == SpaceEnd(text, b)
             d == TokenEnd(text, c)
             e == SpaceEnd(text, d)
             lon == SubSeq(text, a, b - 1)
             lat == SubSeq(text, c, d - 1)
         IN IF /\ IsNumber(lon)
               /\ c > b
               /\ IsNumber(lat)
               /\ CharAt(text, e) = 41
            THEN Some([lon |-> lon, lat |-> lat])
            ELSE None

InRangeScaled(lat, lon) ==
    /\ 0 - 90 * Scale <= lat /\ lat <= 90 * Scale
    /\ 0 - 180 * Scale <= lon /\ lon <= 180 * Scale

\* Lines 121-134: the value of `coordinate` after the parse of coord_str.
ParseCoordStr(text) ==
    LET match == PointMatch(text)
    IN IF match = None THEN None
       ELSE LET lon == Float(match[1].lon)
                lat == Float(match[1].lat)
            IN IF InRangeScaled(lat, lon)
               THEN Some([lat |-> lat, lon |-> lon])
               ELSE None

\* The numerals a server writes, each with the number it denotes:
\*   0        <<48>>
\*   -3       <<45, 51>>
\*   51.5     <<53, 49, 46, 53>>
\*   -0.25    <<45, 48, 46, 50, 53>>
\*   90       <<57, 48>>
\*   -180     <<45, 49, 56, 48>>
\*   95       <<57, 53>>
\*   180.5    <<49, 56, 48, 46, 53>>
\*   1.0E-4   <<49, 46, 48, 69, 45, 52>>
\* The last one is the scientific notation that a WKT literal may use for a
\* number close to zero (0.0001).
Numerals ==
    { [text |-> <<48>>, value |-> (0 * Scale) \div 1],
      [text |-> <<45, 51>>, value |-> (-3 * Scale) \div 1],
      [text |-> <<53, 49, 46, 53>>, value |-> (515 * Scale) \div 10],
      [text |-> <<45, 48, 46, 50, 53>>, value |-> (-25 * Scale) \div 100],
      [text |-> <<57, 48>>, value |-> (90 * Scale) \div 1],
      [text |-> <<45, 49, 56, 48>>, value |-> (-180 * Scale) \div 1],
      [text |-> <<57, 53>>, value |-> (95 * Scale) \div 1],
      [text |-> <<49, 56, 48, 46, 53>>, value |-> (1805 * Scale) \div 10],
      [text |-> <<49, 46, 48, 69, 45, 52>>, value |-> (1 * Scale) \div 10000] }

Spaces(n) == [x \in 1..n |-> 32]

\* the literal Point(<first> <second>) with the given whitespace
Serialize(first, second, lead, gap, trail) ==
    PointPrefix \o Spaces(lead) \o first.text \o Spaces(gap) \o second.text
    \o Spaces(trail) \o <<41>>

InitParse ==
    /\ entry = "parse_coordinate"
    /\ pc = "parse"
    /\ \E first \in Numerals, second \in Numerals, gap \in 1..MaxSpaces :
         /\ coord_value = Serialize(first, second, 0, gap, 0)
         /\ denoted = [lon |-> first.value, lat |-> second.value]
    /\ parsed = None
    /\ CheckerIdle
    /\ DumpIdle
    /\ FilterIdle
    /\ UserFetchIdle
    /\ CompareIdle

\* line 125 is false: the pattern does not match, coordinate stays None
ParseNoMatch ==
    /\ pc = "parse"
    /\ PointMatch(coord_value) = None
    /\ parsed' = ParseCoordStr(coord_value)
    /\ pc' = "parsed"
    /\ UNCHANGED <<coord_value, denoted, checkerState, dumpState, filterState,
                   userFetchState, compareState>>

\* lines 129-130: both numbers are in range, the coordinate is kept
ParseInRange ==
    /\ pc = "parse"
    /\ PointMatch(coord_value) # None
    /\ ParseCoordStr(coord_value) # None
    /\ parsed' = ParseCoordStr(coord_value)
    /\ pc' = "parsed"
    /\ UNCHANGED <<coord_value, denoted, checkerState, dumpState, filterState,
                   userFetchState, compareState>>

\* lines 131-132: a number is out of range, a warning is printed
ParseOutOfRange ==
    /\ pc = "parse"
    /\ PointMatch(coord_value) # None
    /\ ParseCoordStr(coord_value) = None
    /\ parsed' = ParseCoordStr(coord_value)
    /\ pc' = "parsed"
    /\ UNCHANGED <<coord_value, denoted, checkerState, dumpState, filterState,
                   userFetchState, compareState>>

NextParse ==
    \/ ParseNoMatch
    \/ ParseInRange
    \/ ParseOutOfRange

SpecParse == InitParse /\ [][NextParse]_vars

\* the literal is written without an exponent
PlainDecimal(text) == \A x \in DOMAIN text : text[x] # 69

\* C21: for every literal Point(<lon> <lat>) whose numbers are in range
\* (lat in [-90,90], lon in [-180,180]) the coordinate kept by the parse is
\* exactly that pair, the first number as the longitude and the second as
\* the latitude.
C21_ParsedIsDenoted ==
    (pc = "parsed" /\ InRangeScaled(denoted.lat, denoted.lon))
        => parsed = Some([lat |-> denoted.lat, lon |-> denoted.lon])

\* the same for the literals in plain decimal notation
PlainDecimalRoundTrip ==
    (pc = "parsed" /\ InRangeScaled(denoted.lat, denoted.lon)
     /\ PlainDecimal(coord_value))
        => parsed = Some([lat |-> denoted.lat, lon |-> denoted.lon])

\* a literal in plain decimal notation has been parsed and kept
PlainDecimalParsed ==
    /\ pc = "parsed"
    /\ PlainDecimal(coord_value)
    /\ parsed # None
    /\ parsed[1].lat # parsed[1].lon

-----------------------------------------------------------------------------
(* really_long_descriptions.py: the entities of a JSON dump, one per line, *)
(* and the successively longer English descriptions among them.            *)
(* An id and a description are sequences of character codes.               *)

\* most entity lines of a dump
MaxLines == 3

\* a line of the dump that holds one entity; en is None when the entity has
\* no English description
EntityLine(id, en) == [kind |-> "entity", id |-> id, en |-> en]

\* the last line of the dump, "]"
ClosingLine == [kind |-> "closing"]

\* Line 11: the first ids of the tuple to_skip: 'Q31', 'Q8', 'Q75'
to_skip == <<<<81, 51, 49>>, <<81, 56>>, <<81, 55, 53>>>>

\* the ids of the dumps: Q31 is in to_skip, Q5 is not
LongIds == {<<81, 51, 49>>, <<81, 53>>}

\* the descriptions of the dumps: none, "a", "bb", "cc" (a description of
\* the dump is never empty)
LongDescriptions == {None, Some(<<97>>), Some(<<98, 98>>), Some(<<99, 99>>)}

\* x in tuple, for a tuple of strings
InTuple(x, tuple) == \E y \in DOMAIN tuple : tuple[y] = x

\* Variant: a description as long as the longest so far is printed again.
IsLonger_OrEqual(desc, length) == Len(desc) >= length

\* Line 21: len(desc) > longest_length
IsLonger(desc, length) == Len(desc) > length

\* Line 18: qid not in to_skip and 'en' in obj['descriptions']
Eligible(obj) == ~InTuple(obj.id, to_skip) /\ obj.en # None

\* the dumps: up to MaxLines entity lines, then the closing line unless the
\* input was cut short
Dumps(ids, descriptions) ==
    UNION {{entities, Append(entities, ClosingLine)} :
             entities \in UNION {[1..n -> {EntityLine(id, en) :
                                             id \in ids, en \in descriptions}] :
                                 n \in 0..MaxLines}}

\* everything outside the dump scripts
notDumpState ==
    <<checkerState, parseState, filterState, userFetchState, compareState>>

InitLong ==
    /\ entry = "really_long_descriptions"
    /\ pc = "read"
    /\ infile \in Dumps(LongIds, LongDescriptions)
    /\ seen = <<>>
    /\ longest_id = <<81>>
    /\ longest_desc = <<>>
    /\ longest_length = 0
    /\ printed = <<>>
    /\ CheckerIdle
    /\ ParseIdle
    /\ FilterIdle
    /\ UserFetchIdle
    /\ CompareIdle

\* Lines 15-25: an eligible entity with a longer description is printed
LongPrints ==
    /\ pc = "read"
    /\ infile # <<>>
    /\ Head(infile).kind = "entity"
    /\ LET obj == Head(infile)
       IN /\ Eligible(obj)
          /\ IsLonger(obj.en[1], longest_length)
          /\ printed' = Append(printed, [line |-> Len(seen) + 1,
                                         qid |-> obj.id, desc |-> obj.en[1]])
          /\ longest_id' = obj.id
          /\ longest_desc' = obj.en[1]
          /\ longest_length' = Len(obj.en[1])
          /\ seen' = Append(seen, obj)
    /\ infile' = Tail(infile)
    /\ UNCHANGED <<pc, notDumpState>>

\* Lines 15-21: the entity is skipped, has no English description, or its
\* description is not longer than the longest so far
LongPasses ==
    /\ pc = "read"
    /\ infile # <<>>
    /\ Head(infile).kind = "entity"
    /\ LET obj == Head(infile)
       IN /\ ~(Eligible(obj) /\ IsLonger(obj.en[1], longest_length))
          /\ seen' = Append(seen, obj)
    /\ infile' = Tail(infile)
    /\ UNCHANGED <<pc, longest_id, longest_desc, longest_length, printed,
                   notDumpState>>

\* Line 16: json.loads of the closing line "]" raises, the script ends
LongRaises ==
    /\ pc = "read"
    /\ infile # <<>>
    /\ Head(infile).kind = "closing"
    /\ infile' = Tail(infile)
    /\ pc' = "raised"
    /\ UNCHANGED <<seen, longest_id, longest_desc, longest_length, printed,
                   notDumpState>>

\* Line 15: the input is exhausted
LongEnds ==
    /\ pc = "read"
    /\ infile = <<>>
    /\ pc' = "done"
    /\ UNCHANGED <<dumpState, notDumpState>>

NextLong ==
    \/ LongPrints
    \/ LongPasses
    \/ LongRaises
    \/ LongEnds

SpecLong == InitLong /\ [][NextLong]_vars

\* the entity read as line x was printed
WasPrinted(x) == \E p \in DOMAIN printed : printed[p].line = x

\* the entity is not in the skip list and has an English description
NotSkippedWithEn(obj) ==
    /\ \A y \in DOMAIN to_skip : to_skip[y] # obj.id
    /\ obj.en # None

\* C28: the descriptions are printed in strictly increasing length; an item
\* is printed exactly when its id is not in the skip list, it has an English
\* description, and that description is strictly longer than every
\* description printed before it; so the last line printed is a longest
\* English description among the non-skipped items read.
C28_SuccessivelyLonger ==
    /\ \A p, q \in DOMAIN printed :
         p < q => Len(printed[p].desc) < Len(printed[q].desc)
    /\ \A x \in DOMAIN seen :
         WasPrinted(x) <=>
           /\ NotSkippedWithEn(seen[x])
           /\ \A p \in DOMAIN printed :
                printed[p].line < x
                  => Len(printed[p].desc) < Len(seen[x].en[1])
    /\ \A x \in DOMAIN seen :
         NotSkippedWithEn(seen[x])
           => /\ printed # <<>>
              /\ Len(seen[x].en[1]) <= Len(printed[Len(printed)].desc)
    /\ \A p \in DOMAIN printed :
         /\ printed[p].line \in DOMAIN seen
         /\ printed[p].qid = seen[printed[p].line].id
         /\ printed[p].desc = seen[printed[p].line].en[1]

\* the whole dump was read; two descriptions were printed, one of the same
\* length as the first was not, and an entity of the skip list was passed
C28_Witness ==
    /\ pc \in {"done", "raised"}
    /\ entry = "really_long_descriptions"
    /\ Len(printed) = 2
    /\ Len(seen) = 3
    /\ \E x \in DOMAIN seen :
         /\ ~WasPrinted(x)
         /\ NotSkippedWithEn(seen[x])

-----------------------------------------------------------------------------
(* not_the_best.py: the entities of a JSON dump whose English description  *)
(* holds 'the best ' and not 'award'.                                      *)

\* Line 11: to_skip = ('Q749290'), a str: the parentheses make no tuple
to_skip_best == <<81, 55, 52, 57, 50, 57, 48>>

\* 'the best '
TheBest == <<116, 104, 101, 32, 98, 101, 115, 116, 32>>

\* 'award'
Award == <<97, 119, 97, 114, 100>>

\* a in b for two strings: a is a substring of b
InStr(a, b) ==
    \E p \in 0..(Len(b) - Len(a)) : SubSeq(b, p + 1, p + Len(a)) = a

\* Line 15: qid not in to_skip and 'en' in obj['descriptions']
EligibleBest(obj) == ~InStr(obj.id, to_skip_best) /\ obj.en # None

\* Line 18: 'the best ' in desc and 'award' not in desc
Promotional(desc) == InStr(TheBest, desc) /\ ~InStr(Award, desc)

\* the ids of the dumps: Q749290; Q74, whose characters are part of
\* 'Q749290'; Q5
BestIds == {<<81, 55, 52, 57, 50, 57, 48>>, <<81, 55, 52>>, <<81, 53>>}

\* the descriptions of the dumps: none, "the best x", "the best award",
\* "best"
BestDescriptions ==
    {None, Some(<<116, 104, 101, 32, 98, 101, 115, 116, 32, 120>>),
     Some(<<116, 104, 101, 32, 98, 101, 115, 116, 32, 97, 119, 97, 114, 100>>),
     Some(<<98, 101, 115, 116>>)}

InitBest ==
    /\ entry = "not_the_best"
    /\ pc = "read"
    /\ infile \in Dumps(BestIds, BestDescriptions)
    /\ seen = <<>>
    /\ longest_id = <<>>
    /\ longest_desc = <<>>
    /\ longest_length = 0
    /\ printed = <<>>
    /\ CheckerIdle
    /\ ParseIdle
    /\ FilterIdle
    /\ UserFetchIdle
    /\ CompareIdle

\* Lines 12-19: an eligible entity with a promotional description is printed
BestPrints ==
    /\ pc = "read"
    /\ infile # <<>>
    /\ Head(infile).kind = "entity"
    /\ LET obj == Head(infile)
       IN /\ EligibleBest(obj)
          /\ Promotional(obj.en[1])
          /\ printed' = Append(printed, [line |-> Len(seen) + 1,
                                         qid |-> obj.id, desc |-> obj.en[1]])
          /\ seen' = Append(seen, obj)
    /\ infile' = Tail(infile)
    /\ UNCHANGED <<pc, longest_id, longest_desc, longest_length, notDumpState>>

\* Lines 12-18: the entity fails the test of line 15 or the one of line 18
BestPasses ==
    /\ pc = "read"
    /\ infile # <<>>
    /\ Head(infile).kind = "entity"
    /\ LET obj == Head(infile)
       IN /\ ~(EligibleBest(obj) /\ Promotional(obj.en[1]))
          /\ seen' = Append(seen, obj)
    /\ infile' = Tail(infile)
    /\ UNCHANGED <<pc, longest_id, longest_desc, longest_length, printed,
                   notDumpState>>

\* Line 13: json.loads of the closing line "]" raises, the script ends
BestRaises ==
    /\ pc = "read"
    /\ infile # <<>>
    /\ Head(infile).kind = "closing"
    /\ infile' = Tail(infile)
    /\ pc' = "raised"
    /\ UNCHANGED <<seen, longest_id, longest_desc, longest_length, printed,
                   notDumpState>>

\* Line 12: the input is exhausted
BestEnds ==
    /\ pc = "read"
    /\ infile = <<>>
    /\ pc' = "done"
    /\ UNCHANGED <<dumpState, notDumpState>>

NextBest ==
    \/ BestPrints
    \/ BestPasses
    \/ BestRaises
    \/ BestEnds

SpecBest == InitBest /\ [][NextBest]_vars

\* C29: an item is printed exactly when its id is not the skipped id
\* Q749290, it has an English description, and that description contains
\* 'the best ' and does not contain 'award'; no item with another id is
\* skipped because of its id.
C29_OnlyTheSkippedId ==
    \A x \in DOMAIN seen :
        WasPrinted(x) <=>
          /\ seen[x].id # to_skip_best
          /\ seen[x].en # None
          /\ InStr(TheBest, seen[x].en[1])
          /\ ~InStr(Award, seen[x].en[1])

\* what does hold: the id test skips every id whose characters stand in
\* 'Q749290', and the description test is as stated
BestPrintedIffSubstringFree ==
    \A x \in DOMAIN seen :
        WasPrinted(x) <=>
          /\ ~InStr(seen[x].id, to_skip_best)
          /\ seen[x].en # None
          /\ InStr(TheBest, seen[x].en[1])
          /\ ~InStr(Award, seen[x].en[1])

-----------------------------------------------------------------------------
(* coordinates/coord_filter.py: the items of items.json sorted into        *)
(* categories.  Of an entity the model keeps the claims the script reads:  *)
(*   P376  whether the key is present;                                     *)
(*   P30   None, or the id of the first claim's value, itself None when    *)
(*         the claim has no datavalue (an unknown-value or no-value snak); *)
(*   P31   None, or the list of the ids of the claims' values;             *)
(*   P17   None, or the list of [rank, id] of the claims;                  *)
(*   P625  None, or the list of [rank, latitude, longitude] of the claims. *)

\* most items of items.json
MaxFilterItems == 3

\* Lines 39-47: the first types of the set filter_types
filter_types == {"Q23442", "Q207524"}

Entity(p376, p30, p31, p17, p625) ==
    [P376 |-> p376, P30 |-> p30, P31 |-> p31, P17 |-> p17, P625 |-> p625]

Claim17(rank, id) == [rank |-> rank, id |-> id]

Claim625(rank, latitude, longitude) ==
    [rank |-> rank, latitude |-> latitude, longitude |-> longitude]

\* a country claim and a coordinate claim of normal rank
PlainP17 == Some(<<Claim17("normal", Some("Q30"))>>)

PlainP625 == Some(<<Claim625("normal", 6, 7)>>)

DeprecatedP17 ==
    Some(<<Claim17("normal", Some("Q30")), Claim17("deprecated", Some("Q16"))>>)

DeprecatedP625 == Some(<<Claim625("deprecated", 6, 7)>>)

\* The entities of items.json.  Several of them meet the conditions of more
\* than one category.
FilterEntities ==
    { Entity(TRUE, Some(Some("Q51")), Some(<<Some("Q23442")>>),
             DeprecatedP17, PlainP625),
      Entity(TRUE, Some(None), Some(<<None>>), PlainP17, PlainP625),
      Entity(FALSE, Some(Some("Q51")), Some(<<Some("Q207524")>>),
             PlainP17, DeprecatedP625),
      Entity(FALSE, Some(Some("Q15")), Some(<<Some("Q5"), Some("Q23442")>>),
             DeprecatedP17, PlainP625),
      Entity(FALSE, None, Some(<<Some("Q5")>>), DeprecatedP17, PlainP625),
      Entity(FALSE, None, None, None, DeprecatedP625),
      Entity(FALSE, Some(Some("Q15")), Some(<<Some("Q5")>>),
             PlainP17, PlainP625),
      Entity(FALSE, None, None, None, PlainP625),
      Entity(FALSE, Some(None), Some(<<Some("Q5")>>), PlainP17, PlainP625),
      Entity(FALSE, None, Some(<<Some("Q23442"), None>>),
             PlainP17, PlainP625) }

\* Lines 84-85: the body is `pass`, the function returns None
get_country_for_coords(lat, long) == None

\* Line 95: the eight flips of a coordinate
Flips(lat, long) ==
    {<<lat, long>>, <<0 - lat, long>>, <<lat, 0 - long>>,
     <<0 - lat, 0 - long>>, <<long, lat>>, <<0 - long, lat>>,
     <<long, 0 - lat>>, <<0 - long, 0 - lat>>}

\* Lines 87-108: the flips that put the coordinate into the claimed country,
\* None when there is none or when a key is missing (KeyError).
workable_flips(obj) ==
    IF obj.P17 = None \/ obj.P625 = None THEN None
    ELSE IF obj.P17[1][1].id = None THEN None
    ELSE LET claimed_country == obj.P17[1][1].id
             found == {f \in UNION {Flips(obj.P625[1][c].latitude,
                                          obj.P625[1][c].longitude) :
                                    c \in DOMAIN obj.P625[1]} :
                         get_country_for_coords(f[1], f[2]) = claimed_country}
         IN IF found # {} THEN Some(found) ELSE None

\* Line 116: evaluating the test raises KeyError (no datavalue)
AntarcticaRaises(obj) == obj.P30 # None /\ obj.P30[1] = None

\* Line 116: 'P30' in claims and the first claim's value is Q51
InAntarctica(obj) == obj.P30 # None /\ obj.P30[1] = Some("Q51")

\* Line 62: the list comprehension raises KeyError (a claim without datavalue)
FilteredTypeRaises(obj) ==
    obj.P31 # None /\ \E t \in DOMAIN obj.P31[1] : obj.P31[1][t] = None

\* Lines 60-67: True, False, or None when the entity has no P31
is_filtered_type(obj) ==
    IF obj.P31 = None THEN None
    ELSE Some(\E t \in DOMAIN obj.P31[1] : obj.P31[1][t][1] \in filter_types)

\* Line 66: the types added to the counter by the call
CountedTypes(obj) ==
    IF is_filtered_type(obj) = Some(FALSE)
    THEN [t \in DOMAIN obj.P31[1] |-> obj.P31[1][t][1]]
    ELSE <<>>

\* Variant: only the country claims are looked at.
is_deprecated_P17Only(obj) ==
    obj.P17 # None
    /\ \E c \in DOMAIN obj.P17[1] : obj.P17[1][c].rank = "deprecated"

\* Lines 69-82: a P17 or a P625 claim has the rank deprecated
is_deprecated(obj) ==
    \/ /\ obj.P17 # None
       /\ \E c \in DOMAIN obj.P17[1] : obj.P17[1][c].rank = "deprecated"
    \/ /\ obj.P625 # None
       /\ \E c \in DOMAIN obj.P625[1] : obj.P625[1][c].rank = "deprecated"

\* everything outside coord_filter
notFilterState ==
    <<checkerState, parseState, infile, seen, longest_id, longest_desc,
      longest_length, userFetchState, compareState>>

\* the key and the entity the loop is at
CurrentKey == items_json[item_n + 1][1]

CurrentItem == items_json[item_n + 1][2]

InitFilter ==
    /\ entry = "coord_filter"
    /\ pc = "filter"
    /\ \E n \in 0..MaxFilterItems :
         \E objs \in [1..n -> FilterEntities] :
             items_json = [x \in 1..n |-> <<QidPool[x], objs[x]>>]
    /\ item_n = 0
    /\ filtered_count = 0
    /\ deprecated_count = 0
    /\ unfiltered_counter = <<>>
    /\ flippable = EmptyDict
    /\ other = <<>>
    /\ placed = <<>>
    /\ printed = <<>>
    /\ infile = <<>>
    /\ seen = <<>>
    /\ longest_id = <<>>
    /\ longest_desc = <<>>
    /\ longest_length = 0
    /\ CheckerIdle
    /\ ParseIdle
    /\ UserFetchIdle
    /\ CompareIdle

\* Lines 110-115: the item has P376
FilterNotOnEarth ==
    /\ pc = "filter"
    /\ item_n < Len(items_json)
    /\ CurrentItem.P376
    /\ printed' = Append(printed, [i |-> CurrentKey, text |-> "not on Earth"])
    /\ placed' = Append(placed, "not on Earth")
    /\ item_n' = item_n + 1
    /\ UNCHANGED <<pc, items_json, filtered_count, deprecated_count,
                   unfiltered_counter, flippable, other, notFilterState>>

\* Lines 110-118: no P376, the first P30 value is Q51
FilterAntarctica ==
    /\ pc = "filter"
    /\ item_n < Len(items_json)
    /\ ~CurrentItem.P376
    /\ ~AntarcticaRaises(CurrentItem)
    /\ InAntarctica(CurrentItem)
    /\ printed' = Append(printed, [i |-> CurrentKey, text |-> "Antarctica"])
    /\ placed' = Append(placed, "Antarctica")
    /\ item_n' = item_n + 1
    /\ UNCHANGED <<pc, items_json, filtered_count, deprecated_count,
                   unfiltered_counter, flippable, other, notFilterState>>

\* Lines 110-121: is_filtered_type returns True
FilterFilteredType ==
    /\ pc = "filter"
    /\ item_n < Len(items_json)
    /\ ~CurrentItem.P376
    /\ ~AntarcticaRaises(CurrentItem)
    /\ ~InAntarctica(CurrentItem)
    /\ ~FilteredTypeRaises(CurrentItem)
    /\ is_filtered_type(CurrentItem) = Some(TRUE)
    /\ filtered_count' = filtered_count + 1
    /\ placed' = Append(placed, "filtered type")
    /\ item_n' = item_n + 1
    /\ UNCHANGED <<pc, items_json, deprecated_count, unfiltered_counter,
                   flippable, other, printed, notFilterState>>

\* Lines 110-124: is_filtered_type returns False or None, is_deprecated True
FilterDeprecated ==
    /\ pc = "filter"
    /\ item_n < Len(items_json)
    /\ ~CurrentItem.P376
    /\ ~AntarcticaRaises(CurrentItem)
    /\ ~InAntarctica(CurrentItem)
    /\ ~FilteredTypeRaises(CurrentItem)
    /\ is_filtered_type(CurrentItem) # Some(TRUE)
    /\ is_deprecated(CurrentItem)
    /\ unfiltered_counter' = unfiltered_counter \o CountedTypes(CurrentItem)
    /\ deprecated_count' = deprecated_count + 1
    /\ placed' = Append(placed, "deprecated")
    /\ item_n' = item_n + 1
    /\ UNCHANGED <<pc, items_json, filtered_count, flippable, other, printed,
                   notFilterState>>

\* Lines 110-128: none of the tests holds; the item goes to flippable when
\* wf is truthy, else to other
FilterKeeps ==
    /\ pc = "filter"
    /\ item_n < Len(items_json)
    /\ ~CurrentItem.P376
    /\ ~AntarcticaRaises(CurrentItem)
    /\ ~InAntarctica(CurrentItem)
    /\ ~FilteredTypeRaises(CurrentItem)
    /\ is_filtered_type(CurrentItem) # Some(TRUE)
    /\ ~is_deprecated(CurrentItem)
    /\ unfiltered_counter' = unfiltered_counter \o CountedTypes(CurrentItem)
    /\ LET wf == workable_flips(CurrentItem)
       IN IF wf # None
          THEN /\ flippable' = DictPut(flippable, CurrentKey, wf[1])
               /\ placed' = Append(placed, "flippable")
               /\ UNCHANGED other
          ELSE /\ other' = Append(other, CurrentKey)
               /\ placed' = Append(placed, "other")
               /\ UNCHANGED flippable
    /\ item_n' = item_n + 1
    /\ UNCHANGED <<pc, items_json, filtered_count, deprecated_count, printed,
                   notFilterState>>

\* Lines 116 and 62: a P30 or P31 claim without datavalue raises KeyError,
\* which nothing catches: the script ends inside the loop
FilterRaises ==
    /\ pc = "filter"
    /\ item_n < Len(items_json)
    /\ ~CurrentItem.P376
    /\ \/ AntarcticaRaises(CurrentItem)
       \/ ~InAntarctica(CurrentItem) /\ FilteredTypeRaises(CurrentItem)
    /\ pc' = "raised"
    /\ UNCHANGED <<filterState, printed, notFilterState>>

\* Line 110: every key was iterated
FilterEnds ==
    /\ pc = "filter"
    /\ item_n = Len(items_json)
    /\ pc' = "done"
    /\ UNCHANGED <<filterState, printed, notFilterState>>

NextFilter ==
    \/ FilterNotOnEarth
    \/ FilterAntarctica
    \/ FilterFilteredType
    \/ FilterDeprecated
    \/ FilterKeeps
    \/ FilterRaises
    \/ FilterEnds

SpecFilter == InitFilter /\ [][NextFilter]_vars

\* the category of an entity by the stated precedence
CategoryByPrecedence(obj) ==
    IF obj.P376 THEN "not on Earth"
    ELSE IF obj.P30 = Some(Some("Q51")) THEN "Antarctica"
    ELSE IF obj.P31 # None
            /\ \E t \in DOMAIN obj.P31[1] :
                 obj.P31[1][t] # None /\ obj.P31[1][t][1] \in filter_types
         THEN "filtered type"
    ELSE IF \/ obj.P17 # None
               /\ \E c \in DOMAIN obj.P17[1] : obj.P17[1][c].rank = "deprecated"
            \/ obj.P625 # None
               /\ \E c \in DOMAIN obj.P625[1] :
                    obj.P625[1][c].rank = "deprecated"
         THEN "deprecated"
    ELSE IF workable_flips(obj) # None THEN "flippable"
    ELSE "other"

\* number of iterated items that ended in the category
PlacedIn(category) == Cardinality({x \in DOMAIN placed : placed[x] = category})

\* C30: every item the loop has gone through ended in exactly one category,
\* the first of not on Earth, Antarctica, filtered type, deprecated claim,
\* flippable, other whose condition it meets; the counters, the two
\* collections and the printed not-on-Earth and Antarctica lines add up to
\* the number of items gone through, which after the loop is the number of
\* items; no item is both in flippable and in other.
C30_OneCategoryEach ==
    entry = "coord_filter" =>
      /\ Len(placed) = item_n
      /\ \A x \in DOMAIN placed :
           placed[x] = CategoryByPrecedence(items_json[x][2])
      /\ filtered_count = PlacedIn("filtered type")
      /\ deprecated_count = PlacedIn("deprecated")
      /\ Len(flippable) = PlacedIn("flippable")
      /\ Len(other) = PlacedIn("other")
      /\ Len(printed) = PlacedIn("not on Earth") + PlacedIn("Antarctica")
      /\ filtered_count + deprecated_count + Len(flippable) + Len(other)
           + Len(printed) = item_n
      /\ pc = "done" => item_n = Len(items_json)
      /\ DictKeys(flippable) \cap {other[x] : x \in DOMAIN other} = {}
      /\ \A x \in DOMAIN placed :
           /\ placed[x] = "other"
                <=> \E y \in DOMAIN other : other[y] = items_json[x][1]
           /\ placed[x] = "flippable" <=> DictHas(flippable, items_json[x][1])
           /\ placed[x] \in {"not on Earth", "Antarctica"}
                <=> \E y \in DOMAIN printed : printed[y].i = items_json[x][1]

\* the loop has ended after three items: one with a filtered type and a
\* deprecated claim counted as filtered, one with only a deprecated P625
\* claim counted as deprecated, one in other
C30_Witness ==
    /\ entry = "coord_filter"
    /\ pc = "done"
    /\ item_n = 3
    /\ filtered_count = 1
    /\ deprecated_count = 1
    /\ Len(other) = 1
    /\ \E x \in DOMAIN placed :
         /\ placed[x] = "filtered type"
         /\ is_deprecated(items_json[x][2])
    /\ \E x \in DOMAIN placed :
         /\ placed[x] = "deprecated"
         /\ items_json[x][2].P17 = None

-----------------------------------------------------------------------------
(* duper_user_ii.py, fetch_items_by_user: the pages of user contributions  *)
(* are requested one after the other.  Of the dict `items` the model keeps *)
(* the number of keys; of a page it keeps the number of contributions and  *)
(* how many of them lines 52-54 let through (title starting with 'Q', a    *)
(* pageid, an id not yet in items).                                        *)

\* Line 40
max_items_limit == 10000

\* Line 35, "uclimit": "max": the most contributions the server puts on a page
MaxPage == 500

\* the continuation tokens the server hands out
Tokens == {"t1", "t2"}

\* the pages: a full page, a page one short of full, a page of one
\* contribution, each with all or none of its contributions new
Pages ==
    UNION {{[size |-> n, new |-> 0], [size |-> n, new |-> n]} :
             n \in {1, MaxPage - 1, MaxPage}}

\* everything outside fetch_items_by_user
notUserFetchState ==
    <<checkerState, parseState, dumpState, filterState, compareState>>

InitUserFetch ==
    /\ entry = "fetch_items_by_user"
    /\ pc = "user_fetch"
    /\ count = 0
    /\ user_items = 0
    /\ api_params = None
    /\ CheckerIdle
    /\ ParseIdle
    /\ DumpIdle
    /\ FilterIdle
    /\ CompareIdle

\* Lines 42-46, 67-68: the request or the decoding of the response raises
UserFetchFails ==
    /\ pc = "user_fetch"
    /\ count < max_items_limit
    /\ pc' = "done"
    /\ UNCHANGED <<userFetchState, notUserFetchState>>

\* Lines 42-49: the response has no contributions
UserFetchEmpty ==
    /\ pc = "user_fetch"
    /\ count < max_items_limit
    /\ pc' = "done"
    /\ UNCHANGED <<userFetchState, notUserFetchState>>

\* Lines 42-65: a page without a continuation token: every contribution of
\* the page is gone through (lines 51-62), then the loop is left
UserFetchLastPage ==
    /\ pc = "user_fetch"
    /\ count < max_items_limit
    /\ \E page \in Pages :
         /\ count' = count + page.new
         /\ user_items' = user_items + page.new
    /\ pc' = "done"
    /\ UNCHANGED <<api_params, notUserFetchState>>

\* Lines 42-66: a page with a continuation token: every contribution of the
\* page is gone through (lines 51-62), the token is taken over (line 64),
\* and only then the counter is compared with the limit (line 66)
UserFetchPage ==
    /\ pc = "user_fetch"
    /\ count < max_items_limit
    /\ \E page \in Pages, token \in Tokens :
         /\ count' = count + page.new
         /\ user_items' = user_items + page.new
         /\ api_params' = Some(token)
    /\ pc' = IF count' >= max_items_limit THEN "done" ELSE "user_fetch"
    /\ UNCHANGED notUserFetchState

NextUserFetch ==
    \/ UserFetchFails
    \/ UserFetchEmpty
    \/ UserFetchLastPage
    \/ UserFetchPage

SpecUserFetch == InitUserFetch /\ [][NextUserFetch]_vars

\* the program keeps running: a request is answered or fails within its
\* timeout (line 45)
SpecUserFetchLive == SpecUserFetch /\ WF_vars(NextUserFetch)

\* C26: fetch_items_by_user never returns more than max_items_limit items,
\* whatever the sizes of the pages.
C26_AtMostTheLimit ==
    (entry = "fetch_items_by_user" /\ pc = "done")
        => user_items <= max_items_limit

\* what does hold: the dict is less than one page above the limit
UserItemsBelowLimitPlusPage ==
    /\ user_items = count
    /\ user_items < max_items_limit + MaxPage

\* C27: fetch_items_by_user terminates for every sequence of server
\* responses.
C27_Terminates == <>(pc = "done")

\* what does hold: the loop goes on only after a page with a continuation
\* token that left the counter below the limit
ContinuesOnlyBelowLimit ==
    pc = "user_fetch" => count < max_items_limit

-----------------------------------------------------------------------------
(* duper_user_ii.py, compare_and_find_duplicates: a user's item is         *)
(* compared with the candidates a search returned.  A label is a sequence  *)
(* of character codes; a details record is the dict fetch_item_details_    *)
(* batch builds: label (or None), p31 (a sorted list), pageid.             *)

\* most candidates handed to compare_and_find_duplicates
MaxCandidates == 2

\* str.lower() on ASCII text
Lower(t) == [x \in DOMAIN t |-> IF t[x] \in 65..90 THEN t[x] + 32 ELSE t[x]]

\* \w: a letter, a digit or the underscore
IsWordChar(c) == IsDigit(c) \/ c \in 65..90 \/ c \in 97..122 \/ c = 95

\* Line 179: re.sub(r'[^\w\s]', '', text)
RemovePunctuation(t) == SelectSeq(t, LAMBDA c : IsWordChar(c) \/ IsSpace(c))

RECURSIVE CollapseWhitespace(_)
\* Line 180: re.sub(r'\s+', ' ', text)
CollapseWhitespace(t) ==
    IF t = <<>> THEN <<>>
    ELSE IF IsSpace(Head(t)) THEN <<32>> \o CollapseWhitespace(LStrip(t))
    ELSE <<Head(t)>> \o CollapseWhitespace(Tail(t))

\* Lines 175-181: normalize_label of a label that is None or a string
normalize_label(label) ==
    IF label = None \/ label = Some(<<>>) THEN <<>>
    ELSE Strip(CollapseWhitespace(RemovePunctuation(Lower(label[1]))))

\* `not label`: None and the empty string
NoLabel(label) == label = None \/ label = Some(<<>>)

ItemDetails(label, p31, pageid) ==
    [label |-> label, p31 |-> p31, pageid |-> pageid]

\* The user's items: "Ab c." with a pageid; no label; an empty label; no
\* pageid; a label of punctuation only
UserItems ==
    { ItemDetails(Some(<<65, 98, 32, 99, 46>>), <<"Q5">>, Some(5)),
      ItemDetails(None, <<"Q5">>, Some(5)),
      ItemDetails(Some(<<>>), <<"Q5">>, Some(5)),
      ItemDetails(Some(<<65, 98, 32, 99, 46>>), <<"Q5">>, None),
      ItemDetails(Some(<<46>>), <<>>, Some(5)) }

\* The candidates' details: "ab  c" older; "ab c" newer; "AB C" of the same
\* pageid; "abc" older; "Ab c." older with another P31 list; no label;
\* "!" older without P31; "ab_c" older
CandidateItems ==
    { ItemDetails(Some(<<97, 98, 32, 32, 99>>), <<"Q5">>, Some(3)),
      ItemDetails(Some(<<97, 98, 32, 99>>), <<"Q5">>, Some(7)),
      ItemDetails(Some(<<65, 66, 32, 67>>), <<"Q5">>, Some(5)),
      ItemDetails(Some(<<97, 98, 99>>), <<"Q5">>, Some(3)),
      ItemDetails(Some(<<65, 98, 32, 99, 46>>), <<"Q5", "Q6">>, Some(3)),
      ItemDetails(None, <<"Q5">>, Some(3)),
      ItemDetails(Some(<<33>>), <<>>, Some(3)),
      ItemDetails(Some(<<97, 98, 95, 99>>), <<"Q5">>, Some(3)) }

\* Line 202: what fetch_item_details_batch can return for the candidates: a
\* dict that holds details for some of them, in their order
DetailsFor(cands) ==
    UNION {{[x \in 1..Len(kept) |-> <<kept[x], d[x]>>] :
              d \in [1..Len(kept) -> CandidateItems]} :
           kept \in {SelectSeq(cands, LAMBDA q : q \in keys) :
                       keys \in SUBSET {cands[x] : x \in DOMAIN cands}}}

\* Variant: a candidate of the same pageid counts as older.
IsOlder_OrSame(cand_pageid, user_pageid) == cand_pageid <= user_pageid

\* Line 220: cand_pageid < user_pageid
IsOlder(cand_pageid, user_pageid) == cand_pageid < user_pageid

\* everything outside compare_and_find_duplicates
notCompareState ==
    <<checkerState, parseState, dumpState, filterState, userFetchState>>

\* the user's item is Q9, the candidates are the first ids of QidPool
InitCompare ==
    /\ entry = "compare_and_find_duplicates"
    /\ pc = "compare"
    /\ \E details \in UserItems : user_item = [qid |-> "Q9", details |-> details]
    /\ \E n \in 0..MaxCandidates : candidate_qids = SubSeq(QidPool, 1, n)
    /\ candidate_details = EmptyDict
    /\ cand_n = 0
    /\ identified_merge_pairs = <<>>
    /\ CheckerIdle
    /\ ParseIdle
    /\ DumpIdle
    /\ FilterIdle
    /\ UserFetchIdle

\* Line 192: nothing can be compared
CannotCompare ==
    \/ candidate_qids = <<>>
    \/ user_item.details.pageid = None
    \/ NoLabel(user_item.details.label)

\* Lines 191-193: return [] without a request
CompareReturnsEmpty ==
    /\ pc = "compare"
    /\ CannotCompare
    /\ pc' = "returned"
    /\ UNCHANGED <<compareState, notCompareState>>

\* Lines 191-202: the details of the candidates are fetched
CompareFetches ==
    /\ pc = "compare"
    /\ ~CannotCompare
    /\ candidate_details' \in DetailsFor(candidate_qids)
    /\ pc' = "compare_loop"
    /\ UNCHANGED <<user_item, candidate_qids, cand_n, identified_merge_pairs,
                   notCompareState>>

\* Lines 209-235: does the candidate pass every check
Passes(cand_data) ==
    /\ cand_data.pageid # None
    /\ ~NoLabel(cand_data.label)
    /\ IsOlder(cand_data.pageid[1], user_item.details.pageid[1])
    /\ normalize_label(user_item.details.label) = normalize_label(cand_data.label)
    /\ user_item.details.p31 = cand_data.p31

\* Lines 206-235: the candidate fails a check, the loop continues
CompareSkips ==
    /\ pc = "compare_loop"
    /\ cand_n < Len(candidate_details)
    /\ ~Passes(candidate_details[cand_n + 1][2])
    /\ cand_n' = cand_n + 1
    /\ UNCHANGED <<pc, user_item, candidate_qids, candidate_details,
                   identified_merge_pairs, notCompareState>>

\* Lines 206-244: the candidate passes every check, the pair is appended
CompareAppends ==
    /\ pc = "compare_loop"
    /\ cand_n < Len(candidate_details)
    /\ Passes(candidate_details[cand_n + 1][2])
    /\ identified_merge_pairs' =
         Append(identified_merge_pairs,
                <<user_item.qid, candidate_details[cand_n + 1][1]>>)
    /\ cand_n' = cand_n + 1
    /\ UNCHANGED <<pc, user_item, candidate_qids, candidate_details,
                   notCompareState>>

\* Lines 206, 249: every candidate was compared, the pairs are returned
CompareReturns ==
    /\ pc = "compare_loop"
    /\ cand_n = Len(candidate_details)
    /\ pc' = "returned"
    /\ UNCHANGED <<compareState, notCompareState>>

NextCompare ==
    \/ CompareReturnsEmpty
    \/ CompareFetches
    \/ CompareSkips
    \/ CompareAppends
    \/ CompareReturns

SpecCompare == InitCompare /\ [][NextCompare]_vars

\* the same text up to case, punctuation and the amount of whitespace
SameNormalizedLabel(a, b) == normalize_label(a) = normalize_label(b)

\* C25: every pair of compare_and_find_duplicates is (user item, older
\* candidate): the candidate's pageid is strictly lower than the user
\* item's, the two normalized labels are equal and the two P31 lists are
\* identical; the result is empty when there are no candidates or when the
\* user item lacks a pageid or a label.
C25_PairsAreOlderTwins ==
    entry = "compare_and_find_duplicates" =>
      /\ \A p \in DOMAIN identified_merge_pairs :
           LET pair == identified_merge_pairs[p]
           IN /\ pair[1] = user_item.qid
              /\ DictHas(candidate_details, pair[2])
              /\ LET cand == DictGet(candidate_details, pair[2])
                 IN /\ user_item.details.pageid # None
                    /\ cand.pageid # None
                    /\ cand.pageid[1] < user_item.details.pageid[1]
                    /\ SameNormalizedLabel(cand.label, user_item.details.label)
                    /\ cand.p31 = user_item.details.p31
      /\ (\/ candidate_qids = <<>>
          \/ user_item.details.pageid = None
          \/ user_item.details.label \in {None, Some(<<>>)})
           => identified_merge_pairs = <<>>

\* two candidates were compared: the one whose label differs from the
\* user's only in case, punctuation and whitespace gave a pair, the other
\* one did not
C25_Witness ==
    /\ entry = "compare_and_find_duplicates"
    /\ pc = "returned"
    /\ Len(candidate_details) = 2
    /\ Len(identified_merge_pairs) = 1
    /\ LET cand == DictGet(candidate_details, identified_merge_pairs[1][2])
       IN /\ cand.label # user_item.details.label
          /\ cand.label # None

====
